---- MODULE Spec2Model ----
(***************************************************************************)
(* Verification model of the VEX client SDK resilience core:               *)
(*   - MessageQueue   (persistent outbox, per-session drain loop)          *)
(*   - VexClient      (session orchestrator, transport selection)          *)
(*   - SocketConnection (push transport held by the orchestrator)          *)
(* One atomic action is one JavaScript task: a public call, a timer        *)
(* callback or the continuation of an awaited promise, run up to the next  *)
(* suspension point.                                                       *)
(***************************************************************************)
EXTENDS Integers, Sequences, FiniteSets, TLC

\* ------------------------------------------------------------------ bounds
MaxMsgs == 3
maxAttempts == 2
maxQueueSize == 2
maxAge == 1
maxReconnectAttempts == 2
maxRetries == 2
MaxText == 2
MaxDepth == 1
MaxOrphans == 1
MaxInFlight == 1
MaxBatch == 2
MaxSchedules == 4
MaxEvents == 2

Sessions == {"s1"}
MsgIds == 1..MaxMsgs
NoMsg == 0
Slots == {1, 2}
ArrIds == {1, 2, 3}
NoArr == 0

VARIABLES
    \* ---- MessageQueue fields
    queues,            \* Map sessionId -> array object (NoArr: no entry)
    arrs,              \* heap of array objects: contents, a sequence of message ids
    msgs,              \* heap of QueuedMessage objects
    nextId,            \* next id generateId() hands out
    processingTimers,  \* sessions with a pending processing timer
    isProcessing,      \* Map sessionId -> boolean
    sendFn,            \* TRUE once setSendFunction was called
    serverOnline,
    isDirty,
    drain,             \* running processQueue invocations, suspended at the await
    \* ---- MessageQueue observations
    sendCount,         \* calls of sendFn per message
    notified,          \* message:sent / message:failed / message:expired per message
    emitted,           \* notifications emitted by the last task, in order
    lastFailed,        \* per session: the message whose attempt failed last while online,
                       \* if nothing was attempted or enqueued in the session since
    \* ---- VexClient
    config,            \* VexClientConfig: which options are set
    client,            \* the private fields of the VexClient; leaked: a timer it
                       \* started is pending and no field references it
    socket,            \* the SocketConnection the client holds
    orphans,           \* destroyed SocketConnections whose connect() has not settled
    tasks,             \* awaits of the VexClient whose promise has not settled
    \* ---- VexClient observations
    evlog,             \* what the last task emitted on client.ev, in order
    lastCall,          \* what the last task was (a public call, a socket event, a
                       \* settled request) and how it ended
    \* ---- reconnect backoff
    backoff,           \* the reconnection options, _reconnectAttempts and the delay of
                       \* the reconnect timer
    \* ---- HttpClient
    http,              \* one request of the HttpClient and the state axios-retry keeps
                       \* for it
    \* ---- WebhookParser
    parser,            \* a payload, and what WebhookParser.parse made of it
    \* ---- MessageQueue persistence
    disk,              \* queue.json of the persistDir, and the persist timer and the
                       \* capacity of the MessageQueue that writes it
    \* ---- SocketConnection
    conn,              \* the private fields of a SocketConnection and the state of
                       \* the socket.io socket it holds
    \* ---- event delivery
    transport          \* the events of one session, numbered per transport in the
                       \* order the backend sends them: those received, those a
                       \* handler still awaits something for, those emitted

qvars == <<queues, arrs, msgs, nextId, processingTimers, isProcessing,
           sendFn, serverOnline, isDirty, drain, sendCount, notified, emitted,
           lastFailed>>

cvars == <<config, client, socket, orphans, tasks, evlog, lastCall>>

bvars == <<backoff>>

hvars == <<http>>

pvars == <<parser>>

dvars == <<disk>>

svars == <<conn>>

tvars == <<transport>>

vars == <<qvars, cvars, bvars, hvars, pvars, dvars, svars, tvars>>

\* ------------------------------------------------------------ helpers
Range(q) == {q[i] : i \in DOMAIN q}

CountIn(q, m) == Cardinality({i \in DOMAIN q : q[i] = m})

Min(a, b) == IF a <= b THEN a ELSE b

Shift(q) == IF q = <<>> THEN q ELSE Tail(q)

IdleSlot == [pc |-> "idle", arr |-> NoArr, msg |-> NoMsg]

\* QueuedMessage.  createdAt is kept as age = Date.now() - createdAt, which is
\* all the code reads of it; ages above maxAge are indistinguishable.  removed
\* is no field of the code: removeMessage or clearSession took the message out
\* of its queue.
NoMessage ==
    [sessionId |-> "none", age |-> 0, attempts |-> 0, lastError |-> FALSE, removed |-> FALSE]

NoNotes == [sent |-> 0, failed |-> 0, expired |-> 0]

\* getPendingMessages(sessionId)
getPendingMessages(s) == IF queues[s] = NoArr THEN <<>> ELSE arrs[s][queues[s]]

\* array objects of session s still referenced by the map or by a running drain
Referenced(q, d, s) ==
    {q[s]} \cup {d[s][k].arr : k \in {j \in Slots : d[s][j].pc # "idle"}}

\* unreferenced array objects are garbage: their contents are forgotten
Collect(a, q, d) ==
    [s \in Sessions |-> [i \in ArrIds |->
        IF i \in Referenced(q, d, s) THEN a[s][i] ELSE <<>>]]

\* a new array object
FreshArr(q, d, s) ==
    CHOOSE i \in ArrIds : /\ i \notin Referenced(q, d, s)
                          /\ \A j \in ArrIds : j \notin Referenced(q, d, s) => i <= j

\* message objects still referenced by an array or by a suspended drain
Live(a, d) ==
    UNION {Range(a[s][i]) : s \in Sessions, i \in ArrIds}
    \cup {d[s][k].msg : s \in Sessions, k \in Slots}

isExpired(m, id) == m[id].age > maxAge

Note(kind, ids) == [i \in DOMAIN ids |-> <<kind, ids[i]>>]

\* the notification counters after the notifications of the sequence es
Count(n, es) ==
    [id \in MsgIds |->
        [sent    |-> n[id].sent + CountIn(es, <<"sent", id>>),
         failed  |-> n[id].failed + CountIn(es, <<"failed", id>>),
         expired |-> n[id].expired + CountIn(es, <<"expired", id>>)]]

\* ------------------------------------------------------------ MessageQueue
scheduleProcessing_noBusyGuard(online, timers, proc, s) ==
    IF ~online THEN timers
    ELSE IF s \in timers THEN timers
    ELSE timers \cup {s}

\* scheduleProcessing(sessionId, delayMs): the new set of pending timers
scheduleProcessing(online, timers, proc, s) ==
    IF ~online THEN timers
    ELSE IF s \in timers THEN timers
    ELSE IF proc[s] THEN timers
    ELSE timers \cup {s}

\* assignment of every MessageQueue field after a task
SetQ(Q, A, M, I, T, P, F, O, D, DR, SC, E, LF) ==
    \E x \in {<<Q, Collect(A, Q, DR), M, T, DR, SC, E, LF>>} :
    \E L \in {Live(x[2], x[5])} :
       /\ queues' = x[1]
       /\ arrs' = x[2]
       /\ msgs' = [id \in MsgIds |-> IF id \in L THEN x[3][id] ELSE NoMessage]
       /\ nextId' = I
       /\ processingTimers' = x[4]
       /\ isProcessing' = P
       /\ sendFn' = F
       /\ serverOnline' = O
       /\ isDirty' = D
       /\ drain' = x[5]
       /\ sendCount' = [id \in MsgIds |-> IF id \in L THEN x[6][id] ELSE 0]
       /\ notified' = IF x[7] = <<>>
                      THEN [id \in MsgIds |-> IF id \in L THEN notified[id] ELSE NoNotes]
                      ELSE [id \in MsgIds |-> IF id \in L THEN Count(notified, x[7])[id]
                                              ELSE NoNotes]
       /\ emitted' = x[7]
       /\ lastFailed' = [s \in Sessions |-> IF x[8][s] \in L THEN x[8][s] ELSE NoMsg]
       /\ UNCHANGED <<cvars, bvars, hvars, pvars, dvars, svars, tvars>>

setSendFunction ==
    SetQ(queues, arrs, msgs, nextId, processingTimers, isProcessing, TRUE, serverOnline,
         isDirty, drain, sendCount, <<>>, lastFailed)

RECURSIVE ScheduleAll(_, _, _)
ScheduleAll_none(timers, proc, ss) == timers

\* lines 113-115: scheduleProcessing for every key of the map
ScheduleAll(timers, proc, ss) ==
    IF ss = {} THEN timers
    ELSE LET s == CHOOSE x \in ss : TRUE
         IN ScheduleAll(scheduleProcessing(TRUE, timers, proc, s), proc, ss \ {s})

setServerOnline ==
    IF ~serverOnline
    THEN SetQ(queues, arrs, msgs, nextId,
              ScheduleAll(processingTimers, isProcessing, {s \in Sessions : queues[s] # NoArr}),
              isProcessing, sendFn, TRUE, isDirty, drain, sendCount, <<>>, lastFailed)
    ELSE SetQ(queues, arrs, msgs, nextId, processingTimers, isProcessing, sendFn,
              serverOnline, isDirty, drain, sendCount, <<>>, lastFailed)

offlineTimers_keep(timers) == timers

\* the timers left by setServerOffline
offlineTimers(timers) == {}

setServerOffline ==
    IF serverOnline
    THEN SetQ(queues, arrs, msgs, nextId, offlineTimers(processingTimers), isProcessing,
              sendFn, FALSE, isDirty, drain, sendCount, <<>>, lastFailed)
    ELSE SetQ(queues, arrs, msgs, nextId, processingTimers, isProcessing, sendFn,
              serverOnline, isDirty, drain, sendCount, <<>>, lastFailed)

\* this.config.maxQueueSize of the MessageQueue in use
configMaxQueueSize == disk.maxQueueSize

evict_tail(q) == IF Len(q) >= configMaxQueueSize THEN SubSeq(q, 1, Len(q) - 1) ELSE q

\* the capacity check of enqueue: the queue after making room
evict(q) == IF Len(q) >= configMaxQueueSize THEN Shift(q) ELSE q

enqueue(s) ==
    /\ nextId <= MaxMsgs
    /\ LET a    == IF queues[s] = NoArr THEN FreshArr(queues, drain, s) ELSE queues[s]
           q0   == IF queues[s] = NoArr THEN <<>> ELSE arrs[s][a]
           q1   == evict(q0)
           gone == IF Len(q0) >= configMaxQueueSize /\ q0 # <<>> THEN <<Head(q0)>> ELSE <<>>
           id   == nextId
       IN SetQ([queues EXCEPT ![s] = a],
               [arrs EXCEPT ![s][a] = Append(q1, id)],
               [msgs EXCEPT ![id] = [sessionId |-> s, age |-> 0, attempts |-> 0,
                                     lastError |-> FALSE, removed |-> FALSE]],
               nextId + 1,
               scheduleProcessing(serverOnline, processingTimers, isProcessing, s),
               isProcessing, sendFn, serverOnline, TRUE, drain, sendCount,
               Note("expired", gone), [lastFailed EXCEPT ![s] = NoMsg])

removeMessage(s, id) ==
    /\ queues[s] # NoArr
    /\ id \in Range(arrs[s][queues[s]])
    /\ LET q == arrs[s][queues[s]]
           i == CHOOSE j \in DOMAIN q : q[j] = id /\ \A l \in DOMAIN q : q[l] = id => j <= l
       IN SetQ(queues,
               [arrs EXCEPT ![s][queues[s]] = SubSeq(q, 1, i - 1) \o SubSeq(q, i + 1, Len(q))],
               [msgs EXCEPT ![id].removed = TRUE], nextId, processingTimers, isProcessing, sendFn, serverOnline, TRUE,
               drain, sendCount, <<>>, lastFailed)

clearSession(s) ==
    SetQ([queues EXCEPT ![s] = NoArr], arrs,
         [id \in MsgIds |-> IF id \in Range(getPendingMessages(s))
                            THEN [msgs[id] EXCEPT !.removed = TRUE] ELSE msgs[id]],
         nextId, processingTimers \ {s},
         isProcessing, sendFn, serverOnline, TRUE, drain, sendCount, <<>>, lastFailed)

\* Date.now() advances: every message still referenced grows older
Tick ==
    /\ \E id \in Live(arrs, drain) : id # NoMsg /\ msgs[id].age <= maxAge
    /\ SetQ(queues, arrs,
            [id \in MsgIds |-> IF id \in Live(arrs, drain)
                               THEN [msgs[id] EXCEPT !.age = Min(@ + 1, maxAge + 1)]
                               ELSE msgs[id]],
            nextId, processingTimers, isProcessing, sendFn, serverOnline, isDirty, drain,
            sendCount, <<>>, lastFailed)

\* processQueue and the timer callback ---------------------------------------
exhausted_after(m, id) == m[id].attempts > maxAttempts

\* the attempt ceiling test of the drain loop
exhausted(m, id) == m[id].attempts >= maxAttempts

RECURSIVE dropExhausted(_, _)
dropExhausted(q, m) ==
    IF q # <<>> /\ exhausted(m, Head(q)) THEN dropExhausted(Tail(q), m) ELSE q

\* lines 391-398: the code after the while loop
AfterLoop(s, k, a, Q, A, M, T, P, D, E) ==
    LET P1 == [P EXCEPT ![s] = FALSE]
        T1 == IF Len(A[s][a]) > 0 /\ serverOnline
              THEN scheduleProcessing(serverOnline, T, P1, s) ELSE T
    IN SetQ(Q, A, M, nextId, T1, P1, sendFn, serverOnline, D,
            [drain EXCEPT ![s][k] = IdleSlot], sendCount, E, lastFailed)

\* lines 330-354: the while loop up to the await of sendFn, or to its exit
DrainLoop(s, k, a, Q, A, M, T, P, D, E) ==
    LET q0     == A[s][a]
        q1     == IF serverOnline THEN dropExhausted(q0, M) ELSE q0
        failed == SubSeq(q0, 1, Len(q0) - Len(q1))
        A1     == [A EXCEPT ![s][a] = q1]
        E1     == E \o Note("failed", failed)
        D1     == D \/ failed # <<>>
    IN IF Len(q1) > 0 /\ serverOnline
       THEN LET m == Head(q1)
            IN SetQ(Q, A1, [M EXCEPT ![m].attempts = @ + 1], nextId, T, P, sendFn,
                    serverOnline, TRUE,
                    [drain EXCEPT ![s][k] = [pc |-> "sending", arr |-> a, msg |-> m]],
                    [sendCount EXCEPT ![m] = @ + 1], E1,
                    [lastFailed EXCEPT ![s] = NoMsg])
       ELSE AfterLoop(s, k, a, Q, A1, M, T, P, D1, E1)

FreeSlot(s) == CHOOSE k \in Slots : /\ drain[s][k].pc = "idle"
                                    /\ \A j \in Slots : drain[s][j].pc = "idle" => k <= j

\* the setTimeout callback of scheduleProcessing: processQueue(sessionId)
processQueue(s) ==
    /\ s \in processingTimers
    /\ \E j \in Slots : drain[s][j].pc = "idle"
    /\ LET k == FreeSlot(s)
           T == processingTimers \ {s}
       IN IF ~sendFn
          THEN SetQ(queues, arrs, msgs, nextId, T, isProcessing, sendFn, serverOnline,
                    isDirty, drain, sendCount, <<>>, lastFailed)
          ELSE IF ~serverOnline \/ getPendingMessages(s) = <<>>
          THEN SetQ(queues, arrs, msgs, nextId, T, isProcessing, sendFn, serverOnline,
                    isDirty, drain, sendCount, <<>>, lastFailed)
          ELSE LET a     == queues[s]
                   q     == arrs[s][a]
                   \* cleanExpiredMessages(sessionId)
                   valid == SelectSeq(q, LAMBDA id : ~isExpired(msgs, id))
                   old   == SelectSeq(q, LAMBDA id : isExpired(msgs, id))
                   held  == [drain EXCEPT ![s][k] = [pc |-> "sending", arr |-> a, msg |-> NoMsg]]
                   b     == IF Len(valid) # Len(q) THEN FreshArr(queues, held, s) ELSE a
               IN DrainLoop(s, k, a, [queues EXCEPT ![s] = b],
                            [arrs EXCEPT ![s][b] = valid, ![s][a] = IF a = b THEN valid ELSE q],
                            msgs, T, [isProcessing EXCEPT ![s] = TRUE],
                            isDirty \/ Len(valid) # Len(q), Note("expired", old))

\* the promise of sendFn settles: line 356 (resolved) or line 363 (rejected)
sendSettled(s, k, ok) ==
    /\ drain[s][k].pc = "sending"
    /\ LET a == drain[s][k].arr
           m == drain[s][k].msg
       IN IF ok
          THEN DrainLoop(s, k, a, queues, [arrs EXCEPT ![s][a] = Shift(@)], msgs,
                         processingTimers, isProcessing, TRUE, <<<<"sent", m>>>>)
          ELSE LET M == [msgs EXCEPT ![m].lastError = TRUE]
               IN IF ~serverOnline
                  THEN AfterLoop(s, k, a, queues, arrs, M, processingTimers, isProcessing,
                                 TRUE, <<>>)
                  ELSE LET P == [isProcessing EXCEPT ![s] = FALSE]
                       IN SetQ(queues, [arrs EXCEPT ![s][a] = Append(Shift(@), m)], M,
                               nextId, scheduleProcessing(serverOnline, processingTimers, P, s),
                               P, sendFn, serverOnline, TRUE,
                               [drain EXCEPT ![s][k] = IdleSlot], sendCount, <<>>,
                               [lastFailed EXCEPT ![s] = m])

\* ------------------------------------------------------------ persistence
\* JSON.stringify of a QueuedMessage: its fields as key-value pairs.  A field
\* that is undefined, as lastError before the first failure, is left out.
Stringify(m, id) ==
    {<<"id", id>>, <<"createdAt", 0 - m[id].age>>, <<"attempts", m[id].attempts>>}
    \cup (IF m[id].lastError THEN {<<"lastError", 1>>} ELSE {})

Field(entry, key) == (CHOOSE pair \in entry : pair[1] = key)[2]

\* the QueuedMessage JSON.parse makes of an entry, elapsed after it was written
Parse(sessionId, entry, elapsed) ==
    [sessionId |-> sessionId,
     age       |-> Min(elapsed - Field(entry, "createdAt"), maxAge + 1),
     attempts  |-> Field(entry, "attempts"),
     lastError |-> \E pair \in entry : pair[1] = "lastError",
     removed   |-> FALSE]

\* the document saveToDisk writes: the sessions with a queue that is not empty
\* (a session left out is the empty sequence here)
Serialize(q, a, m) ==
    [s \in Sessions |->
        IF q[s] = NoArr THEN <<>>
        ELSE [i \in DOMAIN a[s][q[s]] |-> Stringify(m, a[s][q[s]][i])]]

\* new MessageQueue(): no queue.json in the persistDir yet, the persist timer
\* running.  flushed is the pending list of each session at the last
\* destroy(), written whether that destroy() wrote the file, elapsed the time
\* from then to the construction of the next MessageQueue, maxQueueSize the
\* capacity the constructor was given.
DiskInit ==
    disk = [file |-> [s \in Sessions |-> <<>>], persistTimer |-> TRUE, loaded |-> FALSE,
            maxQueueSize |-> maxQueueSize,
            flushed |-> [s \in Sessions |-> <<>>], written |-> FALSE, elapsed |-> 0]

\* the setInterval callback of startPersistTimer (lines 450-456); ok: the
\* write succeeds
persistTimerFired(ok) ==
    /\ disk.persistTimer
    /\ isDirty
    /\ IF ok
       THEN /\ disk' = [disk EXCEPT !.file = Serialize(queues, arrs, msgs)]
            /\ isDirty' = FALSE
            /\ emitted' = <<>>
       ELSE /\ disk' = disk
            /\ isDirty' = isDirty
            /\ emitted' = <<<<"queue:error", NoMsg>>>>
    /\ UNCHANGED <<queues, arrs, msgs, nextId, processingTimers, isProcessing, sendFn,
                   serverOnline, drain, sendCount, notified, lastFailed>>
    /\ UNCHANGED <<cvars, bvars, hvars, pvars, svars, tvars>>

Pending(s) ==
    [i \in DOMAIN getPendingMessages(s) |->
        LET id == getPendingMessages(s)[i]
        IN [id |-> id, age |-> msgs[id].age, attempts |-> msgs[id].attempts,
            lastError |-> msgs[id].lastError]]

destroyFile_unsaved(file, data) == file

\* the file after the saveToDisk() of destroy() (line 279)
destroyFile(file, data) == data

\* destroy() (lines 262-280); ok: the write succeeds
destroyQueue(ok) ==
    /\ disk.persistTimer
    /\ processingTimers' = {}
    /\ IF ok
       THEN /\ disk' = [disk EXCEPT !.file = destroyFile(@, Serialize(queues, arrs, msgs)),
                                    !.persistTimer = FALSE,
                                    !.flushed = [s \in Sessions |-> Pending(s)],
                                    !.written = TRUE]
            /\ isDirty' = FALSE
            /\ emitted' = <<>>
       ELSE /\ disk' = [disk EXCEPT !.persistTimer = FALSE,
                                    !.flushed = [s \in Sessions |-> Pending(s)],
                                    !.written = FALSE]
            /\ isDirty' = isDirty
            /\ emitted' = <<<<"queue:error", NoMsg>>>>
    /\ UNCHANGED <<queues, arrs, msgs, nextId, isProcessing, sendFn, serverOnline, drain,
                   sendCount, notified, lastFailed>>
    /\ UNCHANGED <<cvars, bvars, hvars, pvars, svars, tvars>>

\* the entries of a session loadFromDisk keeps (lines 509-513)
validMessages(entries, elapsed) ==
    SelectSeq(entries, LAMBDA entry : ~(elapsed - Field(entry, "createdAt") > maxAge))

\* getMessageQueue() after destroyMessageQueue(): the constructor (lines 76-94)
\* of a new MessageQueue on the same persistDir, elapsed after the file was
\* written, with config.maxQueueSize = size.  Its fields are those of the
\* declaration, its queues those loadFromDisk (lines 491-526) sets.  readable:
\* readFileSync and JSON.parse return; otherwise one of them throws, the catch
\* (lines 523-525) writes to the console and the map stays as declared.
newMessageQueue(elapsed, size, readable) ==
    /\ ~disk.persistTimer
    /\ LET valid == [s \in Sessions |->
                        IF readable THEN validMessages(disk.file[s], elapsed) ELSE <<>>]
           ids   == [s \in Sessions |-> [i \in DOMAIN valid[s] |-> Field(valid[s][i], "id")]]
       IN /\ queues' = [s \in Sessions |-> IF valid[s] = <<>> THEN NoArr ELSE 1]
          /\ arrs' = [s \in Sessions |-> [i \in ArrIds |-> IF i = 1 THEN ids[s] ELSE <<>>]]
          /\ msgs' = [id \in MsgIds |->
                IF \E s \in Sessions : id \in Range(ids[s])
                THEN LET s == CHOOSE x \in Sessions : id \in Range(ids[x])
                         i == CHOOSE j \in DOMAIN ids[s] : ids[s][j] = id
                     IN Parse(s, valid[s][i], elapsed)
                ELSE NoMessage]
    /\ processingTimers' = {}
    /\ isProcessing' = [s \in Sessions |-> FALSE]
    /\ sendFn' = FALSE
    /\ serverOnline' = TRUE
    /\ isDirty' = FALSE
    /\ drain' = [s \in Sessions |-> [k \in Slots |-> IdleSlot]]
    /\ sendCount' = [id \in MsgIds |-> 0]
    /\ notified' = [id \in MsgIds |-> NoNotes]
    /\ emitted' = <<>>
    /\ lastFailed' = [s \in Sessions |-> NoMsg]
    /\ disk' = [disk EXCEPT !.persistTimer = TRUE, !.loaded = TRUE, !.elapsed = elapsed,
                            !.maxQueueSize = size,
                            !.flushed = [s \in Sessions |-> <<>>], !.written = FALSE]
    /\ UNCHANGED nextId
    /\ UNCHANGED <<cvars, bvars, hvars, pvars, svars, tvars>>

\* ------------------------------------------------------------ event payloads
\* A payload is a JSON value.  kind tells its shape: "null", "scalar" (a
\* non-array where an array is expected), "object" (no list inside) or "list"
\* (items holds the array: payload.messages of messages.upsert, the payload
\* itself of groups.update).  A timestamp is "absent", the number 5 ("n5"), the
\* number 0 ("n0"), the string "5" ("s5") or a non-numeric string ("sx").
Item(isNull, ts) == [isNull |-> isNull, ts |-> ts]

Data(kind, connection, qrCode, reason, items) ==
    [kind |-> kind, connection |-> connection, qrCode |-> qrCode, reason |-> reason,
     items |-> items]

NullData == Data("null", "none", "none", "none", <<>>)

\* the payload of a connection.update emitted by the client itself; reason
\* holds the message of lastDisconnect.error where the model tells it apart
Update(connection, qrCode, reason) == Data("object", connection, qrCode, reason, <<>>)

Emit(event, data) == [event |-> event, data |-> data]

\* the event attemptReconnect emits when it gives up (lines 643-649)
GaveUp == Emit("connection.update", Update("close", "none", "Max reconnect attempts reached"))

\* parseInt of a timestamp that is a non-empty string; NaN becomes 0
parseInt(ts) == IF ts = "s5" THEN "n5" ELSE IF ts = "sx" THEN "n0" ELSE ts

\* WebhookParser.reconstructMessage: converts msg.messageTimestamp in place
reconstructMessage(msg) == [msg EXCEPT !.ts = parseInt(@)]

\* WebhookParser.reconstructGroup: a normalised copy ({...null} is {})
reconstructGroup(group) ==
    IF group.isNull THEN Item(FALSE, "absent") ELSE [group EXCEPT !.ts = parseInt(@)]

\* index of the first null element of an array, 0 if there is none
FirstNull(items) ==
    IF \E i \in DOMAIN items : items[i].isNull
    THEN CHOOSE i \in DOMAIN items : /\ items[i].isNull
                                     /\ \A j \in DOMAIN items : items[j].isNull => i <= j
    ELSE 0

\* WebhookParser.parseMessageUpsert.  threw: a TypeError was raised; value: the
\* value returned; raw: the caller's payload object after the call.
parseMessageUpsert(payload) ==
    IF payload.kind \in {"null", "object"}
    THEN [threw |-> FALSE, value |-> payload, raw |-> payload]
    ELSE IF payload.kind = "scalar"
    THEN [threw |-> TRUE, value |-> payload, raw |-> payload]
    ELSE LET n    == FirstNull(payload.items)
             done == [i \in DOMAIN payload.items |->
                         IF n = 0 \/ i < n THEN reconstructMessage(payload.items[i])
                         ELSE payload.items[i]]
         IN [threw |-> n # 0,
             value |-> [payload EXCEPT !.items = done],
             raw   |-> [payload EXCEPT !.items = done]]

\* WebhookParser.parseGroupsUpdate
parseGroupsUpdate(payload) ==
    IF payload.kind # "list"
    THEN [threw |-> FALSE, value |-> payload, raw |-> payload]
    ELSE [threw |-> FALSE,
          value |-> [payload EXCEPT !.items =
                        [i \in DOMAIN payload.items |-> reconstructGroup(payload.items[i])]],
          raw   |-> payload]

\* WebhookParser.parse
parse(event, payload) ==
    IF event = "messages.upsert" THEN parseMessageUpsert(payload)
    ELSE IF event = "groups.update" THEN parseGroupsUpdate(payload)
    ELSE [threw |-> FALSE, value |-> payload, raw |-> payload]

Timestamps == {"absent", "n5", "s5", "sx"}

Items == {Item(TRUE, "absent")} \cup {Item(FALSE, ts) : ts \in Timestamps}

Lists == UNION {[1..n -> Items] : n \in 0..MaxBatch}

\* the payloads a server or a webhook delivers with an event
Payloads(event) ==
    IF event = "connection.update"
    THEN {NullData, Update("open", "none", "none"), Update("close", "none", "none"),
          Update("close", "none", "logged_out"), Update("connecting", "none", "none"),
          Update("none", "q1", "none")}
    ELSE IF event \in {"messages.upsert", "groups.update"}
    THEN {NullData, Data("object", "none", "none", "none", <<>>),
          Data("scalar", "none", "none", "none", <<>>)}
         \cup {Data("list", "none", "none", "none", l) : l \in Lists}
    ELSE {NullData, Data("object", "none", "none", "none", <<>>)}

Events == {"connection.update", "messages.upsert", "groups.update", "presence.update"}

\* the events the orchestrator scenario delivers
SessionEvents ==
    {Emit("connection.update", d) : d \in Payloads("connection.update") \ {NullData}}
    \cup {Emit("messages.upsert", Data("list", "none", "none", "none", <<Item(FALSE, "s5")>>))}

\* ------------------------------------------------------------ VexClient
Configs == [token : BOOLEAN, backendUrl : BOOLEAN, socketIO : BOOLEAN,
            reconnection : BOOLEAN]

DefaultConfig == [token |-> FALSE, backendUrl |-> FALSE, socketIO |-> TRUE,
                  reconnection |-> TRUE]

\* SocketConnection: state is what the underlying socket does, pending tells
\* that the promise of connect() has not settled
NoSocket == [state |-> "none", isConnected |-> FALSE, pending |-> FALSE]

NewSocket == [state |-> "connecting", isConnected |-> FALSE, pending |-> TRUE]

NoResponse ==
    [status |-> "none", isConnected |-> FALSE, qrCode |-> "none", sessionUUID |-> "none"]

NoCall == [op |-> "none", outcome |-> "none", event |-> "none", data |-> NullData,
           sessionUUID |-> "none", response |-> NoResponse, result |-> "none"]

Call(op, outcome) == [NoCall EXCEPT !.op = op, !.outcome = outcome]

\* the payload of a socket event names a session: that of this connection
\* ("own") or another one
SessionUUIDs == {"own", "other"}

\* a socket event received: its name, the session it names and its data
Received(op, sessionUUID, event, data) ==
    [NoCall EXCEPT !.op = op, !.event = event, !.data = data, !.sessionUUID = sessionUUID]

\* a request of the client has settled: resolved with response r, or rejected
Settled(op, outcome, r) == [NoCall EXCEPT !.op = op, !.outcome = outcome, !.response = r]

\* an await of the client: the operation awaited and the caller of it
Task(kind, origin) == <<kind, origin>>

\* the session identifiers of the backend: config.token, when set, is "u1"
SessionIds == {"u1", "u2"}

\* what POST /sessions/init and GET /sessions/:id answer, for the session "u1"
Responses ==
    {[status |-> "connected", isConnected |-> TRUE, qrCode |-> "none", sessionUUID |-> "u1"],
     [status |-> "qrcode", isConnected |-> FALSE, qrCode |-> "q1", sessionUUID |-> "u1"],
     [status |-> "connecting", isConnected |-> FALSE, qrCode |-> "none", sessionUUID |-> "u1"],
     [status |-> "connected", isConnected |-> TRUE, qrCode |-> "q1", sessionUUID |-> "u1"]}

isSocketIOEnabled_withWebhook == config.socketIO

\* _isSocketIOEnabled as initialize computes it
isSocketIOEnabled == config.socketIO /\ ~config.backendUrl

isReconnectionEnabled == config.reconnection

\* this._socketConnection?.isConnected
isConnected(c, sk) ==
    c.socketConnection /\ sk.isConnected /\ sk.state \in {"connected", "up"}

\* SocketConnection.destroy() of the connection held, if any: a connection
\* destroyed before its connect() settled is orphaned, its promise still rejects
Orphaned(c, sk, o) == IF c.socketConnection /\ sk.pending THEN o + 1 ELSE o

HasRoom(c, sk, o) == Orphaned(c, sk, o) <= MaxOrphans

\* this._pollingTimer = setInterval(..): the timer the field referenced before,
\* if it is still pending, is referenced by nothing from now on
setPollingTimer(c) == [c EXCEPT !.pollingTimer = TRUE, !.leaked = @ \/ c.pollingTimer]

stopPolling(c) == [c EXCEPT !.pollingTimer = FALSE]

startPolling_noStop(c) == IF c.isDestroyed THEN c ELSE setPollingTimer(c)

startPolling(c) == IF c.isDestroyed THEN c ELSE setPollingTimer(stopPolling(c))

setHealthCheckTimer(c) ==
    [c EXCEPT !.healthCheckTimer = TRUE, !.leaked = @ \/ c.healthCheckTimer]

stopHealthCheck(c) == [c EXCEPT !.healthCheckTimer = FALSE]

startHealthCheck(c) == IF c.isDestroyed THEN c ELSE setHealthCheckTimer(stopHealthCheck(c))

canReconnect_noCeiling(c) == ~c.isDestroyed

\* canReconnect() (lines 575-580)
canReconnect(c) == ~c.isDestroyed /\ c.reconnectAttempts < maxReconnectAttempts

setReconnectTimer(c) ==
    [c EXCEPT !.reconnectTimer = TRUE, !.leaked = @ \/ c.reconnectTimer]

\* scheduleReconnect() (lines 585-603): clearTimeout of the timer pending, then
\* the new one
scheduleReconnect(c) ==
    IF ~isReconnectionEnabled \/ ~canReconnect(c) \/ c.isDestroyed THEN c
    ELSE setReconnectTimer([c EXCEPT !.reconnectTimer = FALSE, !.isReconnecting = TRUE])

ensureInitialized_destroyedOnly(c) == ~c.isDestroyed

\* ensureInitialized(): TRUE when it returns, FALSE when it throws
ensureInitialized(c) == ~c.isDestroyed /\ c.sessionId

\* assignment of every VexClient variable after a task
SetC(c, sk, o, T, E, L) ==
    /\ Cardinality(T) <= MaxInFlight
    /\ client' = c
    /\ socket' = sk
    /\ orphans' = o
    /\ tasks' = T
    /\ evlog' = E
    /\ lastCall' = L
    /\ config' = config
    /\ UNCHANGED <<qvars, bvars, hvars, pvars, dvars, svars, tvars>>

\* connectSocketIO() up to its await of connect(): the previous connection is
\* destroyed, a new one is created and connecting
connectSocketIO(c, sk, o) ==
    IF ~c.sessionId \/ c.isDestroyed THEN [c |-> c, sk |-> sk, o |-> o]
    ELSE [c |-> [c EXCEPT !.socketConnection = TRUE], sk |-> NewSocket,
          o |-> Orphaned(c, sk, o)]

connectSocketIOResolved_healthKept(c) ==
    [stopPolling(c) EXCEPT !.isPollingEnabled = FALSE]

\* connectSocketIO() after connect() resolved (lines 448-453)
connectSocketIOResolved(c) ==
    [stopHealthCheck(stopPolling(c)) EXCEPT !.isPollingEnabled = FALSE]

\* connectSocketIO() after connect() rejected: the catch block (lines 455-470)
connectSocketIORejected(c, sk, o) ==
    [c  |-> startHealthCheck(startPolling(
               [c EXCEPT !.socketIOFailed = TRUE, !.socketConnection = FALSE,
                         !.isPollingEnabled = TRUE])),
     sk |-> NoSocket,
     o  |-> Orphaned(c, sk, o)]

\* the socket:error handler of setupSocketIOHandlers
onSocketError(c, sk) ==
    IF ~isConnected(c, sk) /\ ~c.isPollingEnabled
    THEN startPolling([c EXCEPT !.isPollingEnabled = TRUE])
    ELSE c

\* the session:status handler of setupSocketIOHandlers: fields and emissions
onSessionStatus(c, status) ==
    IF status = "connected"
    THEN [c |-> [c EXCEPT !.connectionStatus = "open", !.lastQrCode = "none"],
          e |-> <<Emit("connection.update", Update("open", "none", "none"))>>]
    ELSE IF status = "qrcode"
    THEN [c |-> [c EXCEPT !.connectionStatus = "qrcode", !.lastQrCode = "q1"],
          e |-> <<Emit("connection.update", Update("none", "q1", "none"))>>]
    ELSE IF status \in {"disconnected", "timeout"}
    THEN [c |-> [c EXCEPT !.connectionStatus = "close"],
          e |-> <<Emit("connection.update", Update("close", "none", "none"))>>]
    ELSE IF status = "connecting"
    THEN [c |-> [c EXCEPT !.connectionStatus = "connecting"],
          e |-> <<Emit("connection.update", Update("connecting", "none", "none"))>>]
    ELSE [c |-> c, e |-> <<>>]

\* injectEvent(event, data): fields and emissions
inject(c, event, data) ==
    LET p     == parse(event, data)
        threw == p.threw \/ (event = "connection.update" /\ p.value.kind = "null")
        st    == IF threw \/ event # "connection.update" THEN c.connectionStatus
                 ELSE IF p.value.connection = "open" THEN "open"
                 ELSE IF p.value.connection = "close" THEN "close"
                 ELSE IF p.value.qrCode # "none" THEN "qrcode"
                 ELSE c.connectionStatus
    IN [c |-> [c EXCEPT !.connectionStatus = st],
        e |-> <<Emit(event, IF threw THEN p.raw ELSE p.value)>>]

injectEvent(event, data) ==
    LET r == inject(client, event, data)
    IN SetC(r.c, socket, orphans, tasks, r.e,
            [NoCall EXCEPT !.op = "injectEvent", !.outcome = "returned",
                           !.event = event, !.data = data])

\* ---- WebhookManager
\* a webhook request: the fields of its body ("none": the field is missing)
\* and what findInstance returns for its sessionUUID
Webhook(event, sessionUUID, data) ==
    [NoCall EXCEPT !.op = "webhook", !.event = event, !.sessionUUID = sessionUUID,
                   !.data = data]

\* the request handled: the instance lookup made and the status of the response
Responded(w, lookup, status) == [w EXCEPT !.outcome = lookup, !.result = status]

\* WebhookManager.handleWebhook without callbacks configured: validation,
\* lookup, WebhookParser.parse, injectEvent, response; an exception reaches the
\* catch block, which responds 500
handleWebhook(event, sessionUUID, found, data) ==
    LET w == Webhook(event, sessionUUID, data)
    IN IF event = "none" \/ sessionUUID = "none"
       THEN SetC(client, socket, orphans, tasks, <<>>, Responded(w, "no lookup", "400"))
       ELSE IF ~(found /\ sessionUUID = "own")
       THEN SetC(client, socket, orphans, tasks, <<>>, Responded(w, "not found", "200"))
       ELSE LET p == parse(event, data)
            IN IF p.threw
               THEN SetC(client, socket, orphans, tasks, <<>>, Responded(w, "found", "500"))
               ELSE LET r == inject(client, event, p.value)
                    IN SetC(r.c, socket, orphans, tasks, r.e, Responded(w, "found", "200"))

\* initialize() up to its await of http.post
initialize(c) == [c EXCEPT !.isPollingEnabled = FALSE]

startingStatus_noQr(r) == IF r.isConnected THEN "open" ELSE "connecting"

\* the status an init response selects (lines 380-389)
startingStatus(r) ==
    IF r.isConnected THEN "open" ELSE IF r.qrCode # "none" THEN "qrcode" ELSE "connecting"

\* initialize() after http.post resolved with response r (lines 363-406)
initialized(c, sk, o, r) ==
    LET c1 == [c EXCEPT !.sessionId = TRUE, !.sessionUUID = r.sessionUUID,
                        !.lastQrCode = r.qrCode,
                        !.lastStatus = r.status, !.reconnectAttempts = 0,
                        !.isReconnecting = FALSE, !.isServerOnline = TRUE,
                        !.connectionStatus = startingStatus(r)]
        e  == <<Emit("connection.update",
                     IF startingStatus(r) = "qrcode" THEN Update("none", r.qrCode, "none")
                     ELSE Update(startingStatus(r), "none", "none"))>>
    IN IF isSocketIOEnabled /\ ~c1.socketIOFailed
       THEN LET k == connectSocketIO(c1, sk, o)
            IN [c |-> k.c, sk |-> k.sk, o |-> k.o, e |-> e]
       ELSE IF ~config.backendUrl
       THEN [c |-> startHealthCheck(startPolling(c1)), sk |-> sk, o |-> o, e |-> e]
       ELSE [c |-> c1, sk |-> sk, o |-> o, e |-> e]

\* the catch block of attemptReconnect (lines 634-651)
attemptFailed(c) ==
    IF canReconnect(c) THEN [c |-> scheduleReconnect(c), e |-> <<>>]
    ELSE [c |-> [c EXCEPT !.isReconnecting = FALSE], e |-> <<GaveUp>>]

\* the promise of http.post("/sessions/init") settles; origin is the caller of
\* initialize: the constructor, reconnect() or attemptReconnect()
initResolved(origin, r) ==
    /\ Task("init", origin) \in tasks
    /\ LET T == tasks \ {Task("init", origin)}
           k == initialized(client, socket, orphans, r)
       IN /\ k.o <= MaxOrphans
          /\ SetC(k.c, k.sk, k.o, T, k.e, Settled("initialize", "resolved", r))

initSettled(origin, ok) ==
    /\ Task("init", origin) \in tasks
    /\ LET T == tasks \ {Task("init", origin)}
       IN IF ok
          THEN \E r \in Responses : initResolved(origin, r)
          ELSE IF origin = "constructor"
          THEN SetC(IF isReconnectionEnabled
                    THEN scheduleReconnect([client EXCEPT !.connectionStatus = "close"])
                    ELSE [client EXCEPT !.connectionStatus = "close"],
                    socket, orphans, T,
                    <<Emit("connection.update", Update("close", "none", "none"))>>,
                    Settled("initialize", "rejected", NoResponse))
          ELSE IF origin = "reconnect"
          THEN SetC(client, socket, orphans, T, <<>>,
                    Settled("initialize", "rejected", NoResponse))
          ELSE LET k == attemptFailed(client)
               IN SetC(k.c, socket, orphans, T, k.e,
                       Settled("initialize", "rejected", NoResponse))

\* ---- SocketConnection events
\* socket 'connect': the handler of connect() (lines 187-198)
socketConnected ==
    /\ client.socketConnection
    /\ socket.state = "connecting"
    /\ SetC(client, [socket EXCEPT !.state = "connected", !.isConnected = TRUE],
            orphans, tasks, <<>>, NoCall)

\* the acknowledgement of session:subscribe resolves connect()
socketSubscribed ==
    /\ client.socketConnection
    /\ socket.state = "connected"
    /\ socket.pending
    /\ SetC(connectSocketIOResolved(client),
            [socket EXCEPT !.state = "up", !.pending = FALSE],
            orphans, tasks, <<>>, NoCall)

\* socket 'connect_error' while connecting: socket:error is emitted, connect() rejects
onConnectError(L) ==
    /\ client.socketConnection
    /\ socket.state = "connecting"
    /\ socket.pending
    /\ LET sk == [socket EXCEPT !.pending = FALSE]
           k  == connectSocketIORejected(onSocketError(client, sk), sk, orphans)
       IN SetC(k.c, k.sk, k.o, tasks, <<>>, L)

socketConnectError == onConnectError(NoCall)

connectFailed == onConnectError(Call("connect", "rejected"))

\* the connection timeout or the subscribe timeout rejects connect() of the
\* connection held
onTimeout(L) ==
    /\ client.socketConnection
    /\ socket.pending
    /\ LET sk == [socket EXCEPT !.pending = FALSE]
           k  == connectSocketIORejected(client, sk, orphans)
       IN SetC(k.c, k.sk, k.o, tasks, <<>>, L)

socketTimedOut == onTimeout(NoCall)

connectTimedOut == onTimeout(Call("connect", "timed out"))

\* the same timeout rejects connect() of a connection destroyed meanwhile
orphanTimedOut ==
    /\ orphans > 0
    /\ LET k == connectSocketIORejected(client, socket, orphans - 1)
       IN k.o <= MaxOrphans /\ SetC(k.c, k.sk, k.o, tasks, <<>>, NoCall)

\* socket 'disconnect' (lines 221-238)
socketDisconnected ==
    /\ client.socketConnection
    /\ socket.state \in {"connected", "up"}
    /\ SetC(client, [socket EXCEPT !.state = "down", !.isConnected = FALSE],
            orphans, tasks, <<>>, NoCall)

\* socket 'reconnect' (lines 247-257)
socketReconnected ==
    /\ client.socketConnection
    /\ socket.state = "down"
    /\ SetC(client, [socket EXCEPT !.state = "up", !.isConnected = TRUE],
            orphans, tasks, <<>>, NoCall)

\* socket 'error' or 'reconnect_failed': socket:error reaches the client
onError(L) ==
    /\ client.socketConnection
    /\ SetC(onSocketError(client, socket), socket, orphans, tasks, <<>>, L)

socketError == onError(NoCall)

receiveSocketError == onError(Call("socket:error", "handled"))

\* the socket.on('session:status') handler (lines 300-302): the payload, which
\* names sessionUUID, is passed on to the client as it is
onStatusEvent(sessionUUID, status, L) ==
    /\ client.socketConnection
    /\ socket.state \in {"connected", "up"}
    /\ LET k == onSessionStatus(client, status)
       IN SetC(k.c, socket, orphans, tasks, k.e, L)

\* socket 'session:status'
socketSessionStatus(status) == onStatusEvent("own", status, NoCall)

receiveSessionStatus(sessionUUID, status) ==
    onStatusEvent(sessionUUID, status,
                  Received("session:status", sessionUUID, "session:status", NullData))

\* the socket.on handler of a Baileys event (lines 340-390)
onBaileysEvent(sessionUUID, event, data, L) ==
    /\ client.socketConnection
    /\ socket.state \in {"connected", "up"}
    /\ IF \/ sessionUUID # "own"
          \/ /\ event = "connection.update"
             /\ data.connection = "close"
             /\ data.reason \notin {"logged_out", "max_reconnect_attempts"}
       THEN SetC(client, socket, orphans, tasks, <<>>, L)
       ELSE LET k == inject(client, event, data)
            IN SetC(k.c, socket, orphans, tasks, k.e, L)

\* a Baileys event of this session arrives on the socket
socketBaileysEvent(event, data) == onBaileysEvent("own", event, data, NoCall)

receiveBaileysEvent(sessionUUID, event, data) ==
    onBaileysEvent(sessionUUID, event, data,
                   Received("baileys:event", sessionUUID, event, data))

\* ---- reconnection and health check
\* attemptReconnect() up to its await of http.healthCheck (lines 608-623)
attemptReconnect(c) ==
    [c |-> [c EXCEPT !.reconnectAttempts = @ + 1],
     e |-> <<Emit("connection.update", Update("connecting", "none", "none"))>>]

\* the reconnect timer fires
reconnectTimerFired ==
    /\ client.reconnectTimer
    /\ Task("probe", "attempt") \notin tasks
    /\ LET c == [client EXCEPT !.reconnectTimer = FALSE]
       IN IF c.isDestroyed THEN SetC(c, socket, orphans, tasks, <<>>, NoCall)
          ELSE LET k == attemptReconnect(c)
               IN SetC(k.c, socket, orphans, tasks \cup {Task("probe", "attempt")}, k.e, NoCall)

\* the health probe of attemptReconnect settles (lines 625-651)
probeSettled(isHealthy) ==
    /\ Task("probe", "attempt") \in tasks
    /\ LET T == tasks \ {Task("probe", "attempt")}
       IN IF isHealthy
          THEN /\ Task("init", "attempt") \notin tasks
               /\ SetC(initialize(client), socket, orphans, T \cup {Task("init", "attempt")},
                       <<>>, Settled("healthCheck", "healthy", NoResponse))
          ELSE LET k == attemptFailed(client)
               IN SetC(k.c, socket, orphans, T, k.e,
                       Settled("healthCheck", "unhealthy", NoResponse))

\* handleServerOffline()
handleServerOffline(c) ==
    IF c.isDestroyed THEN [c |-> c, e |-> <<>>]
    ELSE LET c1 == [c EXCEPT !.isServerOnline = FALSE]
         IN [c |-> IF isReconnectionEnabled /\ ~c1.isReconnecting
                   THEN scheduleReconnect(c1) ELSE c1,
             e |-> <<Emit("connection.update", Update("close", "none", "none"))>>]

\* the health-check interval fires (lines 703-710)
healthCheckFired ==
    /\ client.healthCheckTimer
    /\ Task("health", "timer") \notin tasks
    /\ IF client.isDestroyed
       THEN SetC(stopHealthCheck(client), socket, orphans, tasks, <<>>, NoCall)
       ELSE SetC(client, socket, orphans, tasks \cup {Task("health", "timer")}, <<>>, NoCall)

\* the periodic health probe settles (lines 712-717)
healthSettled(isHealthy) ==
    /\ Task("health", "timer") \in tasks
    /\ LET T == tasks \ {Task("health", "timer")}
       IN IF ~isHealthy /\ client.isServerOnline
          THEN LET k == handleServerOffline(client) IN SetC(k.c, socket, orphans, T, k.e, NoCall)
          ELSE SetC(client, socket, orphans, T, <<>>, NoCall)

\* ---- polling
\* the polling interval fires: pollSessionStatus() up to its await
pollingTimerFired ==
    /\ client.pollingTimer
    /\ Task("poll", "timer") \notin tasks
    /\ Task("events", "timer") \notin tasks
    /\ IF client.isDestroyed
       THEN SetC(stopPolling(client), socket, orphans, tasks, <<>>, NoCall)
       ELSE IF ~client.sessionId
       THEN SetC(client, socket, orphans, tasks, <<>>, NoCall)
       ELSE SetC(client, socket, orphans, tasks \cup {Task("poll", "timer")}, <<>>, NoCall)

\* pollSessionStatus() after http.get resolved with r (lines 784-821)
polled(c, r) ==
    LET qr == r.qrCode # "none" /\ r.qrCode # c.lastQrCode
        c1 == IF qr THEN [c EXCEPT !.lastQrCode = r.qrCode, !.connectionStatus = "qrcode"]
              ELSE c
        e1 == IF qr THEN <<Emit("connection.update", Update("none", r.qrCode, "none"))>>
              ELSE <<>>
        old == c1.lastStatus
        c2 == [c1 EXCEPT !.lastStatus = r.status]
    IN IF r.status = old THEN [c |-> c1, e |-> e1]
       ELSE IF r.isConnected /\ old # "connected"
       THEN [c |-> [c2 EXCEPT !.connectionStatus = "open", !.lastQrCode = "none"],
             e |-> Append(e1, Emit("connection.update", Update("open", "none", "none")))]
       ELSE IF ~r.isConnected /\ old = "connected"
       THEN [c |-> [c2 EXCEPT !.connectionStatus = "close"],
             e |-> Append(e1, Emit("connection.update",
                                   Update("close", "none", "none")))]
       ELSE [c |-> c2, e |-> e1]

\* the status request of a poll settles; pollEvents() follows up to its await
pollSettled(ok) ==
    /\ Task("poll", "timer") \in tasks
    /\ LET T == tasks \ {Task("poll", "timer")}
       IN IF ~ok THEN SetC(client, socket, orphans, T, <<>>, NoCall)
          ELSE \E r \in Responses :
                 LET k == polled(client, r)
                 IN IF ~k.c.sessionId \/ k.c.isDestroyed \/ k.c.connectionStatus # "open"
                    THEN SetC(k.c, socket, orphans, T, k.e, NoCall)
                    ELSE SetC(k.c, socket, orphans, T \cup {Task("events", "timer")}, k.e, NoCall)

\* the events request of a poll settles without events, or fails
pollEventsEmpty ==
    /\ Task("events", "timer") \in tasks
    /\ SetC(client, socket, orphans, tasks \ {Task("events", "timer")}, <<>>, NoCall)

\* the events request of a poll settles with one event (lines 843-847)
pollEventsSettled(event, data) ==
    /\ Task("events", "timer") \in tasks
    /\ LET k == inject(client, event, data)
       IN SetC(k.c, socket, orphans, tasks \ {Task("events", "timer")}, k.e, NoCall)

\* ---- public operations
\* sendMessage, group, contact and presence calls: ensureInitialized, one request
SessionCalls == {"sendMessage", "groupMetadata", "getContacts", "sendPresenceUpdate"}

sessionCall(op) ==
    IF ~ensureInitialized(client)
    THEN SetC(client, socket, orphans, tasks, <<>>, Call(op, "threw"))
    ELSE SetC(client, socket, orphans, tasks, <<>>, Call(op, "http"))

\* what SocketConnection.sendMessage answers (lines 473-505): the backend
\* acknowledges with success true ("sent") or false ("refused"), or no
\* acknowledgement arrives, as when the socket drops during the send, and the
\* promise rejects after the timeout
SendResults == {"sent", "refused", "timeout"}

\* a call with the transport that carried it and what the transport answered
Sent(op, outcome, result) == [Call(op, outcome) EXCEPT !.result = result]

\* sendMessageFast(): the promise of SocketConnection.sendMessage is returned
\* as it is, so what the socket answers is what the caller gets
sendMessageFast(result) ==
    IF ~ensureInitialized(client)
    THEN SetC(client, socket, orphans, tasks, <<>>, Call("sendMessageFast", "threw"))
    ELSE IF isConnected(client, socket)
    THEN SetC(client, socket, orphans, tasks, <<>>, Sent("sendMessageFast", "socket", result))
    ELSE SetC(client, socket, orphans, tasks, <<>>, Call("sendMessageFast", "http"))

logout ==
    IF ~ensureInitialized(client)
    THEN SetC(client, socket, orphans, tasks, <<>>, Call("logout", "threw"))
    ELSE /\ Task("logout", "caller") \notin tasks
         /\ HasRoom(client, socket, orphans)
         /\ SetC([stopPolling(stopHealthCheck(client))
                     EXCEPT !.reconnectTimer = FALSE, !.socketConnection = FALSE,
                            !.isReconnecting = FALSE],
                 NoSocket, Orphaned(client, socket, orphans),
                 tasks \cup {Task("logout", "caller")}, <<>>, Call("logout", "http"))

\* the DELETE of logout settles (lines 958-964)
logoutSettled(ok) ==
    /\ Task("logout", "caller") \in tasks
    /\ LET T == tasks \ {Task("logout", "caller")}
       IN IF ok
          THEN SetC([client EXCEPT !.connectionStatus = "close"], socket, orphans, T,
                    <<Emit("connection.update", Update("close", "none", "none"))>>,
                    NoCall)
          ELSE SetC(client, socket, orphans, T, <<>>, NoCall)

reconnect ==
    IF client.isDestroyed \/ ~client.sessionId
    THEN SetC(client, socket, orphans, tasks, <<>>, Call("reconnect", "threw"))
    ELSE /\ Task("init", "reconnect") \notin tasks
         /\ HasRoom(client, socket, orphans)
         /\ SetC(initialize([client EXCEPT !.connectionStatus = "connecting",
                                           !.reconnectAttempts = 0,
                                           !.socketIOFailed = FALSE,
                                           !.socketConnection = FALSE]),
                 NoSocket, Orphaned(client, socket, orphans),
                 tasks \cup {Task("init", "reconnect")},
                 <<Emit("connection.update", Update("connecting", "none", "none"))>>,
                 Call("reconnect", "http"))

forceReconnect ==
    IF client.isDestroyed
    THEN SetC(client, socket, orphans, tasks, <<>>, Call("forceReconnect", "threw"))
    ELSE /\ Task("probe", "attempt") \notin tasks
         /\ LET k == attemptReconnect([client EXCEPT !.reconnectTimer = FALSE,
                                                     !.reconnectAttempts = 0])
            IN SetC(k.c, socket, orphans, tasks \cup {Task("probe", "attempt")}, k.e,
                    Call("forceReconnect", "http"))

destroy ==
    /\ HasRoom(client, socket, orphans)
    /\ SetC([stopPolling(stopHealthCheck(client))
             EXCEPT !.isDestroyed = TRUE, !.reconnectTimer = FALSE,
                    !.socketConnection = FALSE, !.connectionStatus = "close"],
         NoSocket, Orphaned(client, socket, orphans), tasks,
         <<Emit("connection.update", Update("close", "none", "none"))>>,
         Call("destroy", "returned"))

\* ------------------------------------------------------------ reconnect backoff
\* config.reconnection: small delays in ms (the defaults are 1000, 30000 and
\* the multiplier 2), maxAttempts is MaxSchedules
Reconnections == [initialDelay : {10, 20}, maxDelay : {30, 100}, multiplier : {1, 2}]

DefaultReconnection == [initialDelay |-> 10, maxDelay |-> 300, multiplier |-> 2]

\* the values Math.random() takes, in thousandths
Randoms == {0, 500, 999}

RECURSIVE Pow(_, _)
Pow(b, n) == IF n = 0 THEN 1 ELSE b * Pow(b, n - 1)

getReconnectDelay_noCap(b, random) ==
    LET delay == b.initialDelay * Pow(b.multiplier, b.reconnectAttempts)
    IN delay + (delay * random) \div 10000

\* getReconnectDelay(): Math.floor(delay + delay * 0.1 * Math.random())
getReconnectDelay(b, random) ==
    LET delay == Min(b.initialDelay * Pow(b.multiplier, b.reconnectAttempts), b.maxDelay)
    IN delay + (delay * random) \div 10000

\* phase: "online" after a successful initialization, "waiting" while the
\* reconnect timer is pending, "attempting" while attemptReconnect runs,
\* "exhausted" when no attempt is left.  lastDelay is the delay scheduled before
\* the pending one since the last success, 0 if there is none.
BackoffInit(r) ==
    backoff = [initialDelay |-> r.initialDelay, maxDelay |-> r.maxDelay,
               multiplier |-> r.multiplier, reconnectAttempts |-> 0,
               reconnectTimer |-> 0, lastDelay |-> 0, phase |-> "online"]

SetB(b) == backoff' = b /\ UNCHANGED <<qvars, cvars, hvars, pvars, dvars, svars, tvars>>

\* scheduleReconnect() of the backoff scenario: the timer is set with the delay
\* getReconnectDelay() returns
scheduleBackoff(b, random) ==
    [b EXCEPT !.lastDelay = b.reconnectTimer,
              !.reconnectTimer = getReconnectDelay(b, random),
              !.phase = "waiting"]

\* the server is found offline: handleServerOffline() schedules a reconnect
serverWentOffline ==
    /\ backoff.phase = "online"
    /\ \E random \in Randoms : SetB(scheduleBackoff(backoff, random))

\* the reconnect timer fires: attemptReconnect() counts the attempt
backoffTimerFired ==
    /\ backoff.phase = "waiting"
    /\ SetB([backoff EXCEPT !.reconnectAttempts = @ + 1, !.phase = "attempting"])

\* the attempt fails: the catch block of attemptReconnect
backoffAttemptFailed ==
    /\ backoff.phase = "attempting"
    /\ IF backoff.reconnectAttempts < MaxSchedules
       THEN \E random \in Randoms : SetB(scheduleBackoff(backoff, random))
       ELSE SetB([backoff EXCEPT !.phase = "exhausted"])

\* the attempt succeeds: initialize() resets the counter (lines 375-378)
backoffAttemptSucceeded ==
    /\ backoff.phase = "attempting"
    /\ SetB([backoff EXCEPT !.reconnectAttempts = 0, !.reconnectTimer = 0,
                            !.lastDelay = 0, !.phase = "online"])

\* ------------------------------------------------------------ WebhookParser
\* A JSON value of a payload field: t is its type, s the characters of a
\* string, n a number, b the bytes of a Buffer, o the fields of an object.
Absent == [t |-> "absent", s |-> <<>>, n |-> 0, b |-> <<>>, o |-> <<>>]

Str(s) == [Absent EXCEPT !.t = "string", !.s = s]

Num(n) == [Absent EXCEPT !.t = "number", !.n = n]

Bytes(b) == [Absent EXCEPT !.t = "bytes", !.b = b]

Obj(o) == [Absent EXCEPT !.t = "object", !.o = o]

Chars == {"5", "x"}

Texts == UNION {[1..n -> Chars] : n \in 0..MaxText}

DigitValue(c) == IF c = "5" THEN 5 ELSE 0

IsDigit(c) == c \in {"0", "5"}

\* the number a string of digits denotes
RECURSIVE Decimal(_)
Decimal(d) ==
    IF d = <<>> THEN 0
    ELSE 10 * Decimal(SubSeq(d, 1, Len(d) - 1)) + DigitValue(d[Len(d)])

\* the longest prefix of digits
RECURSIVE Digits(_)
Digits(s) ==
    IF s = <<>> \/ ~IsDigit(Head(s)) THEN <<>> ELSE <<Head(s)>> \o Digits(Tail(s))

\* the value parseInt returns for a text that starts with no digit; it is
\* no timestamp a text of digits can yield
NaN == -1

\* the builtin parseInt on a string: the digits it starts with, NaN if none
ParseInt(s) == IF Digits(s) = <<>> THEN NaN ELSE Decimal(Digits(s))

\* a value is truthy unless it is absent, the empty string or the number 0
Truthy(v) ==
    /\ v.t # "absent"
    /\ v.t = "string" => v.s # <<>>
    /\ v.t = "number" => v.n # 0

\* if (x && typeof x === 'string') x = parseInt(x) || 0 (lines 70-72, 82-87),
\* and the same with isNaN (lines 114-117)
normalizeTimestamp(v) ==
    IF Truthy(v) /\ v.t = "string"
    THEN Num(IF ParseInt(v.s) = NaN THEN 0 ELSE ParseInt(v.s))
    ELSE v

\* the field names of a message's content: one that recursiveBufferDecode
\* knows and one it does not
Keys == {"mediaKey", "caption"}

bufferFields == {"jpegThumbnail", "mediaKey", "fileEncSha256", "fileSha256", "fileLength"}

Base64 == <<"S", "G", "k", "=">>

\* Buffer.from(s, 'base64') of the base64 text the model uses: "SGk=" is "Hi"
Decode(s) == IF s = Base64 THEN <<72, 105>> ELSE <<>>

Leaves == {Absent, Str(Base64), Num(5)}

RECURSIVE Objects(_)
Objects(depth) ==
    IF depth = 0 THEN [Keys -> Leaves]
    ELSE [Keys -> Leaves \cup {Obj(o) : o \in Objects(depth - 1)}]

RECURSIVE recursiveBufferDecode(_)

\* decoding to the text of the bytes instead
recursiveBufferDecode_text(o) ==
    [key \in DOMAIN o |->
        IF key \in bufferFields /\ o[key].t = "string"
        THEN Str(IF o[key].s = Base64 THEN <<"H", "i">> ELSE <<>>)
        ELSE IF o[key].t = "object" THEN Obj(recursiveBufferDecode(o[key].o))
        ELSE o[key]]

recursiveBufferDecode_shallow(o) ==
    [key \in DOMAIN o |->
        IF key \in bufferFields /\ o[key].t = "string" THEN Bytes(Decode(o[key].s))
        ELSE o[key]]

\* recursiveBufferDecode (lines 125-142) of an object: the fields after the
\* call.  A Buffer is an object whose keys are indices and whose values are
\* numbers, so the recursion into it changes nothing.
recursiveBufferDecode(o) ==
    [key \in DOMAIN o |->
        IF key \in bufferFields /\ o[key].t = "string" THEN Bytes(Decode(o[key].s))
        ELSE IF o[key].t = "object" THEN Obj(recursiveBufferDecode(o[key].o))
        ELSE o[key]]

\* the element of a payload array: null, or an object with the fields the
\* parser looks at
Null == [isNull |-> TRUE]

Group(creation) == [isNull |-> FALSE, creation |-> creation]

Chat(conversationTimestamp, lastMessageRecvTimestamp) ==
    [isNull |-> FALSE, conversationTimestamp |-> conversationTimestamp,
     lastMessageRecvTimestamp |-> lastMessageRecvTimestamp]

Message(messageTimestamp, message) ==
    [isNull |-> FALSE, messageTimestamp |-> messageTimestamp, message |-> message]

\* {...null} is {}
normalizeGroup(group) ==
    IF group.isNull THEN Group(Absent) ELSE Group(normalizeTimestamp(group.creation))

normalizeChat(chat) ==
    IF chat.isNull THEN Chat(Absent, Absent)
    ELSE Chat(normalizeTimestamp(chat.conversationTimestamp),
              normalizeTimestamp(chat.lastMessageRecvTimestamp))

\* reconstructMessage of a message that is not null
normalizeMessage(msg) ==
    Message(normalizeTimestamp(msg.messageTimestamp),
            IF msg.message.t = "object" THEN Obj(recursiveBufferDecode(msg.message.o))
            ELSE msg.message)

GroupEvents == {"groups.upsert", "groups.update"}

ChatEvents == {"chats.upsert", "chats.update"}

ParsedEvents == GroupEvents \cup ChatEvents \cup {"messages.upsert"}

\* an event parse returns the payload of as it is
RawEvents == {"messages.update"}

\* WebhookParser.parse of an event whose payload holds one element: an array
\* of one group or chat, or { messages: [msg] }
normalize(event, element) ==
    IF event \in GroupEvents THEN [threw |-> FALSE, value |-> normalizeGroup(element)]
    ELSE IF event \in ChatEvents THEN [threw |-> FALSE, value |-> normalizeChat(element)]
    ELSE IF event = "messages.upsert"
    THEN IF element.isNull THEN [threw |-> TRUE, value |-> element]
         ELSE [threw |-> FALSE, value |-> normalizeMessage(element)]
    ELSE [threw |-> FALSE, value |-> element]

Timestamps1 == {Absent, Num(0), Num(5)} \cup {Str(s) : s \in Texts}

Elements(event) ==
    IF event \in GroupEvents THEN {Null} \cup {Group(c) : c \in Timestamps1}
    ELSE IF event \in ChatEvents
    THEN {Null} \cup {Chat(c, l) : c \in Timestamps1, l \in Timestamps1}
    ELSE IF event = "messages.upsert"
    THEN {Null} \cup {Message(ts, m) : ts \in Timestamps1,
                                       m \in {Absent} \cup {Obj(o) : o \in Objects(MaxDepth)}}
    ELSE {Null} \cup {Message(ts, Obj(o)) : ts \in Timestamps1, o \in Objects(0)}

NoPayload == [event |-> "none", element |-> Null]

\* a payload received; parse has not run.  passes counts the calls of parse,
\* value is what the last one returned
ParserInit(payload) ==
    parser = [event |-> payload.event, element |-> payload.element, passes |-> 0,
              threw |-> FALSE, value |-> payload.element, before |-> payload.element]

SetP(r) == parser' = r /\ UNCHANGED <<qvars, cvars, bvars, hvars, dvars, svars, tvars>>

\* WebhookParser.parse(event, payload), and again on what it returned, as
\* handleWebhook and injectEvent do in turn
parsePayload ==
    /\ parser.event # "none"
    /\ parser.passes < 2
    /\ ~parser.threw
    /\ LET r == normalize(parser.event, parser.value)
       IN SetP([parser EXCEPT !.passes = @ + 1, !.threw = r.threw, !.value = r.value,
                              !.before = parser.value])

\* ------------------------------------------------------------ SocketConnection
\* socket: "none" (this.socket is null), "connecting" (created by connect(),
\* not connected yet), "connected" (socket.connected), "disconnected" (the
\* socket lost its connection and reconnects by itself).  subscribeAck and
\* unsubscribeAck: a request was emitted on the present connection and its
\* acknowledgement has not arrived.  reconnectEvent: the socket came back and
\* its 'reconnect' event, in a build whose socket emits one, is still to come.
\* promise: the promise connect() returned; subscribeTimer: the 10 s timer of
\* subscribeToSession is pending.
ConnInit ==
    conn = [socket |-> "none", isConnected |-> FALSE, isSubscribed |-> FALSE,
            isDestroyed |-> FALSE, reconnectAttempts |-> 0, subscribeAck |-> FALSE,
            unsubscribeAck |-> FALSE, reconnectEvent |-> FALSE, promise |-> "none",
            subscribeTimer |-> FALSE, last |-> "none"]

\* resolve() and reject() settle a promise that is pending, and no other
settle(k, outcome) == IF k.promise = "pending" THEN [k EXCEPT !.promise = outcome] ELSE k

SetS(k, op) == conn' = [k EXCEPT !.last = op] /\ UNCHANGED <<qvars, cvars, bvars, hvars, pvars, dvars, tvars>>

\* get isConnected() (lines 111-113)
connected(k) == k.isConnected /\ k.socket = "connected"

\* connect() up to the creation of the socket (lines 132-178)
connect ==
    /\ ~conn.isDestroyed
    /\ conn.socket = "none"
    /\ SetS([conn EXCEPT !.socket = "connecting", !.promise = "pending"], "connect")

\* the connection timeout of connect() (lines 140-142), cleared by 'connect'
\* and by the first 'connect_error'
onConnectionTimeout ==
    /\ conn.socket = "connecting"
    /\ conn.promise = "pending"
    /\ SetS(settle(conn, "rejected"), "connection timeout")

\* the 'connect_error' handler of connect() (lines 201-206), registered with
\* once; the socket keeps trying
onConnectError1 ==
    /\ conn.socket = "connecting"
    /\ conn.promise = "pending"
    /\ SetS(settle(conn, "rejected"), "connect_error")

\* subscribeToSession() (lines 396-416) up to the emit of session:subscribe
subscribeToSession(k) ==
    IF k.socket = "connected" THEN [k EXCEPT !.subscribeAck = TRUE, !.subscribeTimer = TRUE]
    ELSE k

\* the timeout of subscribeToSession (lines 402-404): the promise rejects, the
\* acknowledgement is still awaited
onSubscribeTimeout ==
    /\ conn.subscribeTimer
    /\ SetS(settle([conn EXCEPT !.subscribeTimer = FALSE], "rejected"), "subscribe timeout")

\* the 'connect' handler of connect() (lines 187-198), registered with once
onConnect ==
    /\ conn.socket = "connecting"
    /\ SetS(subscribeToSession([conn EXCEPT !.socket = "connected", !.isConnected = TRUE,
                                            !.reconnectAttempts = 0]),
            "connect event")

\* the acknowledgement of session:subscribe (lines 406-414)
onSubscribeAck(success) ==
    /\ conn.socket = "connected"
    /\ conn.subscribeAck
    /\ SetS(settle([conn EXCEPT !.subscribeAck = FALSE, !.subscribeTimer = FALSE,
                                !.isSubscribed = IF success THEN TRUE ELSE @],
                   IF success THEN "resolved" ELSE "rejected"),
            IF success THEN "subscribe ack" ELSE "subscribe refused")

\* the handler of session:subscribed (lines 288-292); the socket delivers
\* what the backend sends while it is connected
onSessionSubscribed ==
    /\ conn.socket = "connected"
    /\ SetS([conn EXCEPT !.isSubscribed = TRUE], "session:subscribed")

\* the handler of session:unsubscribed (lines 294-298)
onSessionUnsubscribed ==
    /\ conn.socket = "connected"
    /\ SetS([conn EXCEPT !.isSubscribed = FALSE], "session:unsubscribed")

\* the handler of 'disconnect' (lines 221-238): the acknowledgements of what
\* was emitted on the lost connection never arrive
onDisconnect ==
    /\ conn.socket = "connected"
    /\ SetS([conn EXCEPT !.socket = "disconnected", !.isConnected = FALSE,
                         !.isSubscribed = FALSE, !.subscribeAck = FALSE,
                         !.unsubscribeAck = FALSE, !.reconnectEvent = FALSE],
            "disconnect event")

\* the handler of 'reconnect_attempt' (lines 241-245)
onReconnectAttempt ==
    /\ conn.socket = "disconnected"
    /\ conn.reconnectAttempts < maxReconnectAttempts
    /\ SetS([conn EXCEPT !.reconnectAttempts = @ + 1], "reconnect_attempt")

\* the socket reconnects by itself (reconnection: autoReconnect, line 158): it
\* is connected again and emits 'connect', for which no handler is left.
\* emits: the socket emits 'reconnect' as well; in socket.io-client 3 and
\* later, whose named export io line 1 imports, 'reconnect' is an event of the
\* Manager and the socket does not emit it
socketReconnects(emits) ==
    /\ conn.socket = "disconnected"
    /\ SetS([conn EXCEPT !.socket = "connected", !.reconnectEvent = emits], "reconnected")

\* the handler of 'reconnect' (lines 247-257)
onReconnect ==
    /\ conn.socket = "connected"
    /\ conn.reconnectEvent
    /\ SetS(subscribeToSession([conn EXCEPT !.isConnected = TRUE, !.reconnectAttempts = 0,
                                            !.reconnectEvent = FALSE]),
            "reconnect event")

\* unsubscribe() (lines 421-432) up to the emit of session:unsubscribe
unsubscribe ==
    /\ conn.socket = "connected"
    /\ conn.isSubscribed
    /\ SetS([conn EXCEPT !.unsubscribeAck = TRUE], "unsubscribe")

\* the acknowledgement of session:unsubscribe (lines 427-430)
onUnsubscribeAck ==
    /\ conn.socket = "connected"
    /\ conn.unsubscribeAck
    /\ SetS([conn EXCEPT !.unsubscribeAck = FALSE, !.isSubscribed = FALSE],
            "unsubscribe ack")

\* disconnect() (lines 437-444)
disconnected(k) ==
    [k EXCEPT !.socket = "none", !.isConnected = FALSE, !.isSubscribed = FALSE,
              !.subscribeAck = FALSE, !.unsubscribeAck = FALSE, !.reconnectEvent = FALSE]

disconnect ==
    /\ conn.socket # "none"
    /\ SetS(disconnected(conn), "disconnect")

\* SocketConnection.destroy() (lines 449-453)
destroyConnection ==
    /\ ~conn.isDestroyed
    /\ SetS(disconnected([conn EXCEPT !.isDestroyed = TRUE]), "destroy")

\* ------------------------------------------------------------ HttpClient
\* baseDelay of the HttpClientConfig, in ms
BaseDelays == {1000, 10000}

DefaultBaseDelay == 1000

Methods == {"get", "post"}

\* how a request fails: without a response (code is the error code of the
\* socket, ECONNABORTED the timeout of axios, ENOTFOUND a failed DNS lookup) or
\* with the status of the response
NoError == [code |-> "none", status |-> 0]

NetworkErrors ==
    {[code |-> c, status |-> 0] : c \in {"ECONNREFUSED", "ECONNRESET", "ECONNABORTED", "ENOTFOUND"}}

StatusErrors ==
    {[code |-> "ERR_BAD_RESPONSE", status |-> st] : st \in {400, 401, 403, 404, 422, 500, 503}}

Failures == NetworkErrors \cup StatusErrors

\* retryDelay of setupRetry (lines 69-72)
retryDelay(baseDelay, retryCount) == Min(baseDelay * Pow(2, retryCount - 1), 16000)

\* axiosRetry.isNetworkOrIdempotentRequestError (line 84), as axios-retry
\* defines it: a network error is one without response whose code is neither
\* ECONNABORTED nor refused by is-retry-allowed (ENOTFOUND); an idempotent
\* request error is one of a GET, HEAD, OPTIONS, PUT or DELETE request that is
\* not ECONNABORTED and has no response or a status 5xx
isNetworkOrIdempotentRequestError(error, method) ==
    \/ error.status = 0 /\ error.code \notin {"ECONNABORTED", "ENOTFOUND"}
    \/ /\ method = "get"
       /\ error.code # "ECONNABORTED"
       /\ (error.status = 0 \/ error.status \in 500..599)

\* retryCondition of setupRetry (lines 73-86)
retryCondition(error, method) ==
    IF error.code = "ECONNREFUSED" THEN FALSE
    ELSE IF error.status \in {401, 403} THEN FALSE
    ELSE IF error.status \in {400, 422} THEN FALSE
    ELSE isNetworkOrIdempotentRequestError(error, method) \/ error.status >= 500

\* new HttpClient(config): no request made.  attempts counts the requests sent
\* for the call, retryCount is the count axios-retry keeps, delay the wait
\* before the retry last scheduled, error the failure of the last attempt
HttpInit(baseDelay) ==
    http = [baseDelay |-> baseDelay, method |-> "none", phase |-> "idle", attempts |-> 0,
            retryCount |-> 0, delay |-> 0, error |-> NoError]

SetH(h) == http' = h /\ UNCHANGED <<qvars, cvars, bvars, pvars, dvars, svars, tvars>>

\* get() or post(): the first attempt of a request is sent
request(method) ==
    /\ http.phase \in {"idle", "resolved", "rejected"}
    /\ SetH([http EXCEPT !.method = method, !.phase = "sending", !.attempts = 1,
                         !.retryCount = 0, !.delay = 0, !.error = NoError])

\* the attempt in flight is answered with a status 2xx: the call resolves
requestSucceeded ==
    /\ http.phase = "sending"
    /\ SetH([http EXCEPT !.phase = "resolved", !.error = NoError])

\* the attempt in flight fails: axios-retry schedules a retry while fewer than
\* retries (maxRetries, line 68) were made and retryCondition holds, else the
\* error reaches the caller
requestFailed(error) ==
    /\ http.phase = "sending"
    /\ IF http.retryCount < maxRetries /\ retryCondition(error, http.method)
       THEN SetH([http EXCEPT !.phase = "waiting", !.retryCount = @ + 1,
                             !.delay = retryDelay(http.baseDelay, http.retryCount + 1),
                             !.error = error])
       ELSE SetH([http EXCEPT !.phase = "rejected", !.error = error])

\* the retry delay has passed: the request is sent again
retryTimerFired ==
    /\ http.phase = "waiting"
    /\ SetH([http EXCEPT !.phase = "sending", !.attempts = @ + 1])

\* ------------------------------------------------------------ event delivery
\* The events of a session reach the client by the socket, by the poll loop or
\* by the webhook receiver.  An event is the number the backend gave it on its
\* transport; log is what client.ev emitted, per transport, in order.
\* onBeforeEvent: the callback of the WebhookManager is configured and
\* asynchronous.
TransportInit(onBeforeEvent) ==
    transport = [onBeforeEvent |-> onBeforeEvent,
                 socket |-> 0, webhook |-> 0, awaiting |-> {},
                 produced |-> 0, handed |-> 0, polls |-> 0, requests |-> {},
                 log |-> [socket |-> <<>>, webhook |-> <<>>, poll |-> <<>>]]

SetT(x) == transport' = x /\ UNCHANGED <<qvars, cvars, bvars, hvars, pvars, dvars, svars>>

\* the numbers from a + 1 to b, in order
Batch(a, b) == [i \in 1..(b - a) |-> a + i]

\* the baileys:event handler (index.ts 541-544): injectEvent in the handler
baileysEvent ==
    /\ transport.socket < MaxEvents
    /\ SetT([transport EXCEPT !.socket = @ + 1,
                              !.log.socket = Append(@, transport.socket + 1)])

\* handleWebhook up to injectEvent, or up to its await of onBeforeEvent (lines
\* 673-717)
webhookReceived ==
    /\ transport.webhook < MaxEvents
    /\ LET n == transport.webhook + 1
       IN IF transport.onBeforeEvent
          THEN SetT([transport EXCEPT !.webhook = n, !.awaiting = @ \cup {n}])
          ELSE SetT([transport EXCEPT !.webhook = n, !.log.webhook = Append(@, n)])

\* the promise of onBeforeEvent settles: parse and injectEvent (lines 723-725)
onBeforeEventSettled(n) ==
    /\ n \in transport.awaiting
    /\ SetT([transport EXCEPT !.awaiting = @ \ {n}, !.log.webhook = Append(@, n)])

\* the backend has a new event for the poll loop
backendEvent ==
    /\ transport.produced < MaxEvents
    /\ SetT([transport EXCEPT !.produced = @ + 1])

\* the setInterval callback of startPolling (lines 745-752): it awaits
\* pollSessionStatus, the interval does not; the backend answers the request
\* for events of pollEvents (839-841) with the events it has not handed out
pollRequested ==
    /\ transport.polls < MaxEvents
    /\ SetT([transport EXCEPT
               !.polls = @ + 1,
               !.handed = transport.produced,
               !.requests = @ \cup {[poll |-> transport.polls + 1,
                                     events |-> Batch(transport.handed,
                                                      transport.produced)]}])

\* the response of a request for events arrives: injectEvent for each event of
\* it, in the order of the response (lines 843-847)
pollResponded(p) ==
    \E r \in transport.requests :
        /\ r.poll = p
        /\ SetT([transport EXCEPT !.requests = @ \ {r}, !.log.poll = @ \o r.events])

\* ------------------------------------------------------------ specification
QueueInit ==
    /\ queues = [s \in Sessions |-> NoArr]
    /\ arrs = [s \in Sessions |-> [i \in ArrIds |-> <<>>]]
    /\ msgs = [id \in MsgIds |-> NoMessage]
    /\ nextId = 1
    /\ processingTimers = {}
    /\ isProcessing = [s \in Sessions |-> FALSE]
    /\ sendFn = FALSE
    /\ serverOnline = TRUE
    /\ isDirty = FALSE
    /\ drain = [s \in Sessions |-> [k \in Slots |-> IdleSlot]]
    /\ sendCount = [id \in MsgIds |-> 0]
    /\ notified = [id \in MsgIds |-> NoNotes]
    /\ emitted = <<>>
    /\ lastFailed = [s \in Sessions |-> NoMsg]

\* new VexClient(cfg): the fields after the constructor returned, initialize()
\* suspended at its await of http.post
ClientInit(cfg) ==
    /\ config = cfg
    /\ client = [sessionId |-> cfg.token,
                 sessionUUID |-> IF cfg.token THEN "u1" ELSE "none",
                 connectionStatus |-> "connecting",
                 isServerOnline |-> TRUE, reconnectAttempts |-> 0,
                 reconnectTimer |-> FALSE, healthCheckTimer |-> FALSE,
                 pollingTimer |-> FALSE, isReconnecting |-> FALSE,
                 isDestroyed |-> FALSE, lastQrCode |-> "none", lastStatus |-> "none",
                 isPollingEnabled |-> FALSE, socketConnection |-> FALSE,
                 socketIOFailed |-> FALSE, leaked |-> FALSE]
    /\ socket = NoSocket
    /\ orphans = 0
    /\ tasks = {Task("init", "constructor")}
    /\ evlog = <<>>
    /\ lastCall = NoCall

Init ==
    /\ QueueInit
    /\ ClientInit(DefaultConfig)
    /\ BackoffInit(DefaultReconnection)
    /\ HttpInit(DefaultBaseDelay)
    /\ ParserInit(NoPayload)
    /\ DiskInit
    /\ ConnInit
    /\ TransportInit(FALSE)

InitC ==
    /\ QueueInit
    /\ \E cfg \in Configs : ClientInit(cfg)
    /\ BackoffInit(DefaultReconnection)
    /\ HttpInit(DefaultBaseDelay)
    /\ ParserInit(NoPayload)
    /\ DiskInit
    /\ ConnInit
    /\ TransportInit(FALSE)

NextQ ==
    \/ setSendFunction
    \/ setServerOnline
    \/ setServerOffline
    \/ \E s \in Sessions : enqueue(s)
    \/ \E s \in Sessions : processQueue(s)
    \/ \E s \in Sessions, k \in Slots, ok \in BOOLEAN : sendSettled(s, k, ok)
    \/ Tick

SpecQ == Init /\ [][NextQ]_vars

\* The queue while its owner takes operations out of it: removeMessage and
\* clearSession between the steps of a drain.
NextRemove ==
    \/ setSendFunction
    \/ \E s \in Sessions : enqueue(s)
    \/ \E s \in Sessions : processQueue(s)
    \/ \E s \in Sessions, k \in Slots, ok \in BOOLEAN : sendSettled(s, k, ok)
    \/ \E s \in Sessions, id \in MsgIds : removeMessage(s, id)
    \/ \E s \in Sessions : clearSession(s)

SpecRemove == Init /\ [][NextRemove]_vars

\* The queue with its persist timer: queue.json is rewritten while the queue is
\* used.
NextPersist ==
    \/ NextQ
    \/ \E ok \in BOOLEAN : persistTimerFired(ok)

SpecPersist == Init /\ [][NextPersist]_vars

\* A restart: the queue is used, destroyed, and constructed again on the same
\* persistDir.  What the persist timer wrote before is overwritten by destroy().
\* the first MessageQueue, not destroyed yet
inUse == disk.persistTimer /\ ~disk.loaded

NextRestart ==
    \/ inUse /\ setSendFunction
    \/ \E s \in Sessions : inUse /\ enqueue(s)
    \/ \E s \in Sessions : inUse /\ processQueue(s)
    \/ \E s \in Sessions, k \in Slots, ok \in BOOLEAN : inUse /\ sendSettled(s, k, ok)
    \/ inUse /\ Tick
    \/ \E ok \in BOOLEAN : inUse /\ destroyQueue(ok)
    \/ \E elapsed \in 0..(maxAge + 1) : newMessageQueue(elapsed, maxQueueSize, TRUE)

SpecRestart == Init /\ [][NextRestart]_vars

\* Restarts with a storage that may fail and a configuration that may change:
\* the queue is filled, written by its persist timer, destroyed, and constructed
\* again on the same persistDir with a capacity that is the one before or a
\* smaller one.
NextLoad ==
    \/ \E s \in Sessions : disk.persistTimer /\ enqueue(s)
    \/ disk.persistTimer /\ Tick
    \/ \E ok \in BOOLEAN : persistTimerFired(ok)
    \/ \E ok \in BOOLEAN : destroyQueue(ok)
    \/ \E elapsed \in 0..(maxAge + 1), size \in 1..maxQueueSize, readable \in BOOLEAN :
          newMessageQueue(elapsed, size, readable)

SpecLoad == Init /\ [][NextLoad]_vars

\* The scenario of an outage: the send function is configured, the server goes
\* offline, operations are enqueued during the outage, the server comes back and
\* stays online.
enqueueOffline(s) == sendFn /\ ~serverOnline /\ enqueue(s)

outageBegins == sendFn /\ nextId = 1 /\ serverOnline /\ setServerOffline

outageEnds == ~serverOnline /\ setServerOnline

NextOutage ==
    \/ setSendFunction
    \/ outageBegins
    \/ \E s \in Sessions : enqueueOffline(s)
    \/ outageEnds
    \/ \E s \in Sessions : processQueue(s)
    \/ \E s \in Sessions, k \in Slots, ok \in BOOLEAN : sendSettled(s, k, ok)
    \/ Tick

SpecOutage == Init /\ [][NextOutage]_vars

\* The orchestrator: a VexClient, the SocketConnection it holds, its timers and
\* the requests it awaits.
NextC ==
    \/ \E origin \in {"constructor", "reconnect", "attempt"}, ok \in BOOLEAN :
          initSettled(origin, ok)
    \/ socketConnected
    \/ socketSubscribed
    \/ socketConnectError
    \/ socketTimedOut
    \/ orphanTimedOut
    \/ socketDisconnected
    \/ socketReconnected
    \/ socketError
    \/ \E status \in {"connected", "qrcode", "disconnected", "timeout", "connecting"} :
          socketSessionStatus(status)
    \/ \E ev \in SessionEvents : socketBaileysEvent(ev.event, ev.data)
    \/ reconnectTimerFired
    \/ \E isHealthy \in BOOLEAN : probeSettled(isHealthy)
    \/ healthCheckFired
    \/ \E isHealthy \in BOOLEAN : healthSettled(isHealthy)
    \/ pollingTimerFired
    \/ \E ok \in BOOLEAN : pollSettled(ok)
    \/ pollEventsEmpty
    \/ \E ev \in SessionEvents : pollEventsSettled(ev.event, ev.data)
    \/ logout
    \/ \E ok \in BOOLEAN : logoutSettled(ok)
    \/ reconnect
    \/ forceReconnect
    \/ destroy
    \/ \E ev \in SessionEvents : injectEvent(ev.event, ev.data)

SpecC == InitC /\ [][NextC]_vars

\* The public operations: every call a consumer can make, in every state the
\* calls themselves, the initializations, the reconnect attempts and the
\* connection of the socket lead to.
NextCalls ==
    \/ \E origin \in {"constructor", "reconnect", "attempt"}, ok \in BOOLEAN :
          initSettled(origin, ok)
    \/ socketConnected
    \/ socketSubscribed
    \/ socketTimedOut
    \/ orphanTimedOut
    \/ reconnectTimerFired
    \/ \E isHealthy \in BOOLEAN : probeSettled(isHealthy)
    \/ \E op \in SessionCalls : sessionCall(op)
    \/ \E result \in SendResults : sendMessageFast(result)
    \/ logout
    \/ \E ok \in BOOLEAN : logoutSettled(ok)
    \/ reconnect
    \/ forceReconnect
    \/ destroy

SpecCalls == InitC /\ [][NextCalls]_vars

\* A SocketConnection by itself: its owner's calls, the events of its socket
\* and what the backend sends over it.
NextSocket ==
    \/ connect
    \/ onConnectionTimeout
    \/ onConnectError1
    \/ onConnect
    \/ onSubscribeTimeout
    \/ \E success \in BOOLEAN : onSubscribeAck(success)
    \/ onSessionSubscribed
    \/ onSessionUnsubscribed
    \/ onDisconnect
    \/ onReconnectAttempt
    \/ \E emits \in BOOLEAN : socketReconnects(emits)
    \/ onReconnect
    \/ unsubscribe
    \/ onUnsubscribeAck
    \/ disconnect
    \/ destroyConnection

SpecSocket == Init /\ [][NextSocket]_vars

\* The session identifier: initializations, first and repeated, answered with
\* either identifier.  A request of a client without config.token carries no
\* identifier, so that the backend creates a session each time.
NextSession ==
    \/ \E origin \in {"constructor", "reconnect", "attempt"} :
          \/ initSettled(origin, FALSE)
          \/ \E r \in Responses, uuid \in SessionIds :
                initResolved(origin, [r EXCEPT !.sessionUUID = uuid])
    \/ reconnectTimerFired
    \/ \E isHealthy \in BOOLEAN : probeSettled(isHealthy)
    \/ reconnect
    \/ forceReconnect

SpecSession == InitC /\ [][NextSession]_vars

\* Reconnection: the server goes away and comes back while the reconnect
\* timer, the health check and the consumer's reconnect calls run.
NextReconnect ==
    \/ \E origin \in {"constructor", "reconnect", "attempt"}, ok \in BOOLEAN :
          initSettled(origin, ok)
    \/ reconnectTimerFired
    \/ \E isHealthy \in BOOLEAN : probeSettled(isHealthy)
    \/ healthCheckFired
    \/ \E isHealthy \in BOOLEAN : healthSettled(isHealthy)
    \/ reconnect
    \/ forceReconnect
    \/ destroy

SpecReconnect == InitC /\ [][NextReconnect]_vars

\* Fallback: the socket fails to connect, or connects, drops and reports
\* errors, while the consumer may reconnect.
NextFallback ==
    \/ \E origin \in {"constructor", "reconnect"}, ok \in BOOLEAN : initSettled(origin, ok)
    \/ socketConnected
    \/ socketSubscribed
    \/ connectFailed
    \/ connectTimedOut
    \/ orphanTimedOut
    \/ socketDisconnected
    \/ socketReconnected
    \/ receiveSocketError
    \/ reconnect

SpecFallback == Init /\ [][NextFallback]_vars

\* The health check: the socket fails to connect and the client falls back to
\* polling with the periodic health check, whose probes succeed or fail; the
\* consumer may reconnect, which gives the socket a new chance.
NextHealth ==
    \/ \E origin \in {"constructor", "reconnect", "attempt"}, ok \in BOOLEAN :
          initSettled(origin, ok)
    \/ socketConnected
    \/ socketSubscribed
    \/ connectFailed
    \/ connectTimedOut
    \/ orphanTimedOut
    \/ socketDisconnected
    \/ socketReconnected
    \/ healthCheckFired
    \/ \E isHealthy \in BOOLEAN : healthSettled(isHealthy)
    \/ reconnectTimerFired
    \/ \E isHealthy \in BOOLEAN : probeSettled(isHealthy)
    \/ reconnect

SpecHealth == Init /\ [][NextHealth]_vars

\* The timers: a client in poll mode, with its poll loop, its health check and
\* its reconnect schedule, and a MessageQueue with its drain schedule, both
\* used and destroyed by one process.  The queue is given one operation, the
\* requests of the client are answered with one response or fail.
PollConfig == [DefaultConfig EXCEPT !.socketIO = FALSE]

InitTimers ==
    /\ QueueInit
    /\ ClientInit(PollConfig)
    /\ BackoffInit(DefaultReconnection)
    /\ HttpInit(DefaultBaseDelay)
    /\ ParserInit(NoPayload)
    /\ DiskInit
    /\ ConnInit
    /\ TransportInit(FALSE)

NextTimers ==
    \/ \E origin \in {"constructor", "attempt"} : initSettled(origin, FALSE)
    \/ \E origin \in {"constructor", "attempt"} :
          initResolved(origin, CHOOSE r \in Responses : r.status = "connecting")
    \/ healthCheckFired
    \/ \E isHealthy \in BOOLEAN : healthSettled(isHealthy)
    \/ pollingTimerFired
    \/ pollSettled(FALSE)
    \/ reconnectTimerFired
    \/ \E isHealthy \in BOOLEAN : probeSettled(isHealthy)
    \/ forceReconnect
    \/ destroy
    \/ disk.persistTimer /\ setSendFunction
    \/ disk.persistTimer /\ setServerOffline
    \/ disk.persistTimer /\ setServerOnline
    \/ \E s \in Sessions : disk.persistTimer /\ nextId = 1 /\ enqueue(s)
    \/ \E s \in Sessions : disk.persistTimer /\ clearSession(s)
    \/ \E s \in Sessions : processQueue(s)
    \/ \E s \in Sessions, k \in Slots, ok \in BOOLEAN : sendSettled(s, k, ok)
    \/ \E ok \in BOOLEAN : destroyQueue(ok)

SpecTimers == InitTimers /\ [][NextTimers]_vars

\* Event delivery: events arrive on the three transports, with and without an
\* asynchronous onBeforeEvent callback; polls overlap when a response takes
\* longer than the polling interval.
InitDelivery ==
    /\ QueueInit
    /\ ClientInit(DefaultConfig)
    /\ BackoffInit(DefaultReconnection)
    /\ HttpInit(DefaultBaseDelay)
    /\ ParserInit(NoPayload)
    /\ DiskInit
    /\ ConnInit
    /\ \E onBeforeEvent \in BOOLEAN : TransportInit(onBeforeEvent)

NextDelivery ==
    \/ baileysEvent
    \/ webhookReceived
    \/ \E n \in 1..MaxEvents : onBeforeEventSettled(n)
    \/ backendEvent
    \/ pollRequested
    \/ \E p \in 1..MaxEvents : pollResponded(p)

SpecDelivery == InitDelivery /\ [][NextDelivery]_vars

\* Webhook mode: backendUrl is configured; the client initializes, reconnects
\* on its own and on demand, and the webhook receiver injects events.
InitWebhook ==
    /\ QueueInit
    /\ \E cfg \in {c \in Configs : c.backendUrl} : ClientInit(cfg)
    /\ BackoffInit(DefaultReconnection)
    /\ HttpInit(DefaultBaseDelay)
    /\ ParserInit(NoPayload)
    /\ DiskInit
    /\ ConnInit
    /\ TransportInit(FALSE)

NextWebhook ==
    \/ \E origin \in {"constructor", "reconnect", "attempt"}, ok \in BOOLEAN :
          initSettled(origin, ok)
    \/ reconnectTimerFired
    \/ \E isHealthy \in BOOLEAN : probeSettled(isHealthy)
    \/ reconnect
    \/ forceReconnect
    \/ \E ev \in SessionEvents : injectEvent(ev.event, ev.data)

SpecWebhook == InitWebhook /\ [][NextWebhook]_vars

\* The webhook receiver: requests with and without event and sessionUUID, for
\* this session and another one, with every payload, before and after the
\* client is initialized.
InitReceiver ==
    /\ QueueInit
    /\ ClientInit([DefaultConfig EXCEPT !.backendUrl = TRUE])
    /\ BackoffInit(DefaultReconnection)
    /\ HttpInit(DefaultBaseDelay)
    /\ ParserInit(NoPayload)
    /\ DiskInit
    /\ ConnInit
    /\ TransportInit(FALSE)

NextReceiver ==
    \/ \E ok \in BOOLEAN : initSettled("constructor", ok)
    \/ \E event \in Events \cup {"none"}, sessionUUID \in SessionUUIDs \cup {"none"},
          found \in BOOLEAN :
          \E data \in Payloads(event) : handleWebhook(event, sessionUUID, found, data)

SpecReceiver == InitReceiver /\ [][NextReceiver]_vars

\* HTTP requests: GET and POST requests that succeed or fail in every way, under
\* every base delay.
InitHttp ==
    /\ QueueInit
    /\ ClientInit(DefaultConfig)
    /\ BackoffInit(DefaultReconnection)
    /\ \E baseDelay \in BaseDelays : HttpInit(baseDelay)
    /\ ParserInit(NoPayload)
    /\ DiskInit
    /\ ConnInit
    /\ TransportInit(FALSE)

NextHttp ==
    \/ \E method \in Methods : request(method)
    \/ requestSucceeded
    \/ \E error \in Failures : requestFailed(error)
    \/ retryTimerFired

SpecHttp == InitHttp /\ [][NextHttp]_vars

\* The parser: every event it normalizes, with every element.
InitParser ==
    /\ QueueInit
    /\ ClientInit(DefaultConfig)
    /\ BackoffInit(DefaultReconnection)
    /\ HttpInit(DefaultBaseDelay)
    /\ \E event \in ParsedEvents \cup RawEvents : \E element \in Elements(event) :
          ParserInit([event |-> event, element |-> element])
    /\ DiskInit
    /\ ConnInit
    /\ TransportInit(FALSE)

NextParser == parsePayload

SpecParser == InitParser /\ [][NextParser]_vars

\* Push mode: the socket connects, drops and reconnects, and the backend sends
\* session:status and Baileys events that name this session or another one.
CloseReasons == {"none", "logged_out", "max_reconnect_attempts", "connection_lost"}

PushEvents ==
    SessionEvents \cup {Emit("connection.update", Update("close", "none", r)) : r \in CloseReasons}

NextPush ==
    \/ \E ok \in BOOLEAN : initSettled("constructor", ok)
    \/ socketConnected
    \/ socketSubscribed
    \/ socketDisconnected
    \/ socketReconnected
    \/ \E s \in SessionUUIDs : \E ev \in PushEvents : receiveBaileysEvent(s, ev.event, ev.data)
    \/ \E s \in SessionUUIDs :
          \E status \in {"connected", "qrcode", "disconnected", "timeout", "connecting"} :
             receiveSessionStatus(s, status)

SpecPush == Init /\ [][NextPush]_vars

\* Backoff: failures and successes of reconnect attempts under every
\* reconnection configuration.
InitBackoff ==
    /\ QueueInit
    /\ ClientInit(DefaultConfig)
    /\ \E r \in Reconnections : BackoffInit(r)
    /\ HttpInit(DefaultBaseDelay)
    /\ ParserInit(NoPayload)
    /\ DiskInit
    /\ ConnInit
    /\ TransportInit(FALSE)

NextBackoff ==
    \/ serverWentOffline
    \/ backoffTimerFired
    \/ backoffAttemptFailed
    \/ backoffAttemptSucceeded

SpecBackoff == InitBackoff /\ [][NextBackoff]_vars

\* Event injection: every event with every payload, on a client of any
\* configuration, before or after its initialization and its destruction.
NextEvents ==
    \/ \E event \in Events : \E data \in Payloads(event) : injectEvent(event, data)
    \/ \E ok \in BOOLEAN : initSettled("constructor", ok)
    \/ destroy

SpecEvents == InitC /\ [][NextEvents]_vars

\* ================================================================ claims
Sending(s) == {k \in Slots : drain[s][k].pc = "sending"}

\* an attempt of message id starts in this step: sendFn is called with it
Attempted(id) == sendCount'[id] = sendCount[id] + 1

C3_FailedMovesToTail ==
    [][\A s \in Sessions :
         /\ \A k \in Slots :
              (/\ drain[s][k].pc = "sending"
               /\ drain'[s][k].pc = "idle"
               /\ serverOnline
               /\ msgs'[drain[s][k].msg].lastError
               /\ emitted' = <<>>)
              => /\ getPendingMessages(s)' # <<>>
                 /\ getPendingMessages(s)'[Len(getPendingMessages(s)')] = drain[s][k].msg
         /\ \A id \in MsgIds :
              (Attempted(id) /\ lastFailed[s] = id)
              => Range(getPendingMessages(s)') \subseteq {id}]_vars

\* C4: enqueue on a full queue removes exactly the head, emits message:expired
\* for it and appends the new operation, which has attempts = 0.
C4_EvictOldest ==
    [][\A s \in Sessions :
         (/\ nextId' = nextId + 1
          /\ msgs'[nextId].sessionId = s
          /\ Len(getPendingMessages(s)) = maxQueueSize)
         => /\ getPendingMessages(s)' = Append(Tail(getPendingMessages(s)), nextId)
            /\ emitted' = <<<<"expired", Head(getPendingMessages(s))>>>>
            /\ msgs'[nextId].attempts = 0]_vars

\* C4 witness: an enqueue has just evicted the head of a full queue
C4_Witness ==
    \E s \in Sessions :
        /\ Len(getPendingMessages(s)) = maxQueueSize
        /\ Len(emitted) = 1 /\ emitted[1][1] = "expired"
        /\ getPendingMessages(s)[maxQueueSize] = nextId - 1
        /\ emitted[1][2] \notin Range(getPendingMessages(s))

\* C5: an operation is passed to the send function at most maxAttempts times;
\* once exhausted it is removed from the queue with message:failed when it
\* reaches the head and is never attempted again; attempts never decreases.
C5_AttemptCeiling ==
    [][\A id \in MsgIds :
         /\ sendCount'[id] <= maxAttempts
         /\ (msgs[id].sessionId # "none" /\ msgs'[id].sessionId # "none")
            => msgs'[id].attempts >= msgs[id].attempts
         /\ notified[id].failed > 0 => ~Attempted(id)
         /\ \A s \in Sessions :
              <<"failed", id>> \in Range(emitted') => id \notin Range(getPendingMessages(s)')]_vars

\* C6: after an outage, an operation enqueued during the outage never stays
\* queued with no drain pending or running.
C6_NeverStranded ==
    \A s \in Sessions :
        (serverOnline /\ sendFn /\ getPendingMessages(s) # <<>>)
        => (s \in processingTimers \/ isProcessing[s])

\* C7: while the queue believes the server is offline no processing timer is
\* pending and no delivery attempt starts.
C7_OfflineIsQuiet ==
    /\ [](~serverOnline => processingTimers = {})
    /\ [][(\E id \in MsgIds : Attempted(id)) => serverOnline]_vars

\* C7 witness: the server is offline while an attempt started before is in flight
\* and another operation of the session waits, never attempted
C7_Witness ==
    /\ ~serverOnline
    /\ \E s \in Sessions : /\ Sending(s) # {}
                           /\ \E i \in DOMAIN getPendingMessages(s) :
                                 sendCount[getPendingMessages(s)[i]] = 0

\* C1: a live SocketConnection and a running poll timer never coexist: the push
\* transport and the poll transport are never active at the same time.
C1_ExclusiveTransport == ~(isConnected(client, socket) /\ client.pollingTimer)

\* C8: once destroy() has been called, the reconnect, health-check and poll
\* timers are inactive, no SocketConnection is held and connectionStatus is
\* 'close', in every later state.
C8_DestroyedStaysClosed ==
    client.isDestroyed =>
        /\ ~client.reconnectTimer
        /\ ~client.healthCheckTimer
        /\ ~client.pollingTimer
        /\ ~client.socketConnection
        /\ client.connectionStatus = "close"

GuardedOps == SessionCalls \cup {"sendMessageFast", "logout", "reconnect", "forceReconnect"}

\* the call of this step threw before any request, timer or state change
FailedFast ==
    /\ lastCall'.outcome = "threw"
    /\ client' = client
    /\ socket' = socket
    /\ orphans' = orphans
    /\ tasks' = tasks
    /\ evlog' = <<>>

\* C9 as stated: every session-affecting operation called on a destroyed
\* instance or on an instance without session id fails fast.
C9_StateErrorEveryOperation ==
    [][(lastCall'.op \in GuardedOps /\ (client.isDestroyed \/ ~client.sessionId))
          => FailedFast]_vars

\* C9 (amended): every session-affecting operation called on a destroyed
\* instance fails fast, and every one except forceReconnect fails fast on an
\* instance without session id.
C9_StateError ==
    [][(/\ lastCall'.op \in GuardedOps
        /\ \/ client.isDestroyed
           \/ ~client.sessionId /\ lastCall'.op # "forceReconnect")
          => FailedFast]_vars

\* C9 witness: a session operation has just failed on a live instance that has
\* no session id, while its initialization is still awaited
C9_Witness ==
    /\ lastCall.op \in GuardedOps \ {"forceReconnect"}
    /\ lastCall.outcome = "threw"
    /\ ~client.isDestroyed
    /\ ~client.sessionId
    /\ tasks # {}

\* normalization of the payload raises an error inside injectEvent
Raises(event, data) ==
    parse(event, data).threw \/ (event = "connection.update" /\ data.kind = "null")

\* C10: injectEvent emits the event exactly once, with the normalized data, or
\* with the raw data as it was passed in if normalization raised an error.
C10_InjectEmitsOnce ==
    lastCall.op = "injectEvent" =>
        evlog = <<Emit(lastCall.event,
                       IF Raises(lastCall.event, lastCall.data) THEN lastCall.data
                       ELSE parse(lastCall.event, lastCall.data).value)>>

\* a socket event has just been handled
Handled == lastCall'.op \in {"baileys:event", "session:status"}

Untouched == evlog' = <<>> /\ client' = client

\* C11: in push mode a connection.update of the backend with connection 'close'
\* is forwarded to consumers, and sets connectionStatus to 'close', only if its
\* reason is logged_out or max_reconnect_attempts: for every other reason
\* nothing is emitted and the client is unchanged; an event that names another
\* session is never forwarded.
C11_CloseFilter ==
    [][Handled =>
         /\ lastCall'.sessionUUID # "own" => Untouched
         /\ (/\ lastCall'.op = "baileys:event"
             /\ lastCall'.sessionUUID = "own"
             /\ lastCall'.event = "connection.update"
             /\ lastCall'.data.connection = "close")
            => IF lastCall'.data.reason \in {"logged_out", "max_reconnect_attempts"}
               THEN /\ evlog' = <<Emit("connection.update", lastCall'.data)>>
                    /\ client'.connectionStatus = "close"
               ELSE Untouched]_vars

\* C12: after every successful init response connectionStatus is 'open' if the
\* response reports isConnected, else 'qrcode' if it carries a QR code, which is
\* emitted in a connection.update, else 'connecting'; the reconnect attempt
\* counter is 0, isReconnecting is false and isServerOnline is true.  The status
\* before any response is 'connecting'.
C12_InitResponse ==
    /\ client.connectionStatus = "connecting"
    /\ [][(lastCall'.op = "initialize" /\ lastCall'.outcome = "resolved") =>
            LET r == lastCall'.response
            IN /\ client'.connectionStatus =
                     (IF r.isConnected THEN "open"
                      ELSE IF r.qrCode # "none" THEN "qrcode" ELSE "connecting")
               /\ client'.connectionStatus = "qrcode" =>
                     evlog' = <<Emit("connection.update", Update("none", r.qrCode, "none"))>>
               /\ client'.reconnectAttempts = 0
               /\ ~client'.isReconnecting
               /\ client'.isServerOnline]_vars

\* C12 witness: an init request has just resolved with a QR code while a
\* reconnect timer is pending
C12_Witness ==
    /\ lastCall.op = "initialize"
    /\ lastCall.outcome = "resolved"
    /\ lastCall.response.qrCode = "q1"
    /\ ~lastCall.response.isConnected
    /\ client.connectionStatus = "qrcode"
    /\ client.reconnectTimer

\* a reconnect timer is scheduled in this step
Scheduling == backoff'.phase = "waiting" /\ backoff.phase # "waiting"

\* min(initialDelay * multiplier^attempts, maxDelay)
BaseDelay(b, attempts) == Min(b.initialDelay * Pow(b.multiplier, attempts), b.maxDelay)

\* the delay scheduled is within [base, 1.1 * base], so never above the cap by
\* more than 10%, and the first delay after a success is computed from attempts = 0
DelayInRange ==
    LET base == BaseDelay(backoff', backoff'.reconnectAttempts)
    IN /\ base <= backoff'.reconnectTimer
       /\ 10 * backoff'.reconnectTimer <= 11 * base
       /\ 10 * backoff'.reconnectTimer <= 11 * backoff'.maxDelay
       /\ backoff.phase = "online" => base = BaseDelay(backoff', 0)

\* the cap is not reached by the delay scheduled in this step
BelowCap == BaseDelay(backoff', backoff'.reconnectAttempts) < backoff'.maxDelay

AttemptStarts == Task("probe", "attempt") \in tasks' \ tasks

\* an attempt ends in the catch block: its probe was unhealthy or its
\* initialization was rejected
AttemptFails ==
    \/ lastCall' = Settled("healthCheck", "unhealthy", NoResponse)
    \/ /\ lastCall' = Settled("initialize", "rejected", NoResponse)
       /\ Task("init", "attempt") \in tasks \ tasks'

\* the initialization of an attempt starts only when its probe was healthy
ProbeBeforeInit ==
    Task("init", "attempt") \in tasks' \ tasks
        => lastCall' = Settled("healthCheck", "healthy", NoResponse)

\* the attempt that fails is the last one allowed: the client gives up
GivesUp ==
    AttemptFails /\ ~client.isDestroyed /\ client.reconnectAttempts >= maxReconnectAttempts
        => /\ ~client'.reconnectTimer
           /\ ~client'.isReconnecting
           /\ evlog' = <<GaveUp>>

\* C14 (as stated): with maxAttempts = N, an attempt starts only when fewer
\* than N were made since the counter was last reset, each attempt probes the
\* server before it initializes, and the N-th failure leaves no reconnect
\* timer, isReconnecting false and exactly one terminal close event.
C14_BoundedAttempts ==
    [][/\ AttemptStarts => client.reconnectAttempts < maxReconnectAttempts
       /\ ProbeBeforeInit
       /\ GivesUp]_vars

\* C14 (amended): the same, but for an attempt forceReconnect() starts, which
\* resets the counter first.
C14_BoundedTimerAttempts ==
    [][/\ AttemptStarts /\ lastCall'.op # "forceReconnect"
           => client.reconnectAttempts < maxReconnectAttempts
       /\ ProbeBeforeInit
       /\ GivesUp]_vars

\* the last attempt allowed has failed and the client has given up
C14_Witness ==
    /\ evlog = <<GaveUp>>
    /\ ~client.isDestroyed
    /\ client.reconnectAttempts = maxReconnectAttempts
    /\ ~client.reconnectTimer
    /\ ~client.isReconnecting

\* ---- fallback to polling
\* the client has fallen back: Socket.IO marked failed, the connection
\* released, the poll timer and the health check running
FellBack(c) ==
    c.socketIOFailed /\ ~c.socketConnection /\ c.pollingTimer /\ c.healthCheckTimer

\* C15: when connect() of the connection held is rejected, or the connection
\* reports an error after it was disconnected, the client marks Socket.IO
\* failed, releases the connection and starts the poll timer and the health
\* check; an initialization of a client so marked creates no connection.
C15_Fallback ==
    [][/\ lastCall'.op = "connect" => FellBack(client')
       /\ lastCall'.op = "socket:error" /\ socket.state = "down" => FellBack(client')
       /\ lastCall'.op = "initialize" /\ client.socketIOFailed => ~client'.socketConnection]_vars

\* ---- webhook mode
\* the client holds no transport: no SocketConnection, held or being torn
\* down, no poll timer, no health check and no request of either in flight
NoTransport ==
    /\ ~client.socketConnection
    /\ socket = NoSocket
    /\ orphans = 0
    /\ ~client.pollingTimer
    /\ ~client.healthCheckTimer
    /\ tasks \cap {Task("poll", "timer"), Task("events", "timer"), Task("health", "timer")} = {}

\* C16: with backendUrl configured, whatever initializations, reconnect
\* attempts, forceReconnect() and reconnect() calls take place, the client never
\* creates a SocketConnection and never starts the poll timer or the health
\* check, and an event of the session is emitted only by injectEvent.
C16_WebhookMode ==
    config.backendUrl =>
        /\ NoTransport
        /\ \A i \in DOMAIN evlog :
              evlog[i].event # "connection.update" => lastCall.op = "injectEvent"

\* the webhook-mode client has made a reconnect attempt, waits for the next
\* one, and the receiver has injected an event
C16_Witness ==
    /\ config.backendUrl
    /\ client.reconnectAttempts >= 1
    /\ client.reconnectTimer
    /\ lastCall.op = "injectEvent"
    /\ evlog # <<>>
    /\ evlog[1].event # "connection.update"

\* ---- fast send
\* C17: when sendMessageFast hands the message to the connected socket and the
\* send fails (refused, or no acknowledgement before the timeout), the message
\* is then sent over HTTP, and the outbox is left as it was.
C17_FastSendFallsBack ==
    [][(/\ lastCall'.op = "sendMessageFast"
        /\ isConnected(client, socket)
        /\ lastCall'.result \in {"refused", "timeout"})
          => /\ lastCall'.outcome = "socket, then http"
             /\ UNCHANGED qvars]_vars

\* ---- webhook handler
\* C20: a request without event or sessionUUID is answered 400 with no lookup
\* and no injection; every other request is answered 200, whether or not an
\* instance is found; the event is injected, once, exactly when the request is
\* valid and the instance is found.
C20_WebhookResponse ==
    [][lastCall'.op = "webhook" =>
         LET valid == lastCall'.event # "none" /\ lastCall'.sessionUUID # "none"
             found == lastCall'.outcome = "found"
         IN /\ ~valid => /\ lastCall'.result = "400"
                         /\ lastCall'.outcome = "no lookup"
            /\ valid => lastCall'.result = "200"
            /\ IF valid /\ found
               THEN Len(evlog') = 1 /\ evlog'[1].event = lastCall'.event
               ELSE evlog' = <<>>]_vars

\* ---- HTTP retries
\* C18: a request is attempted at most maxRetries times in all, and its error
\* reaches the caller only after the last of these attempts failed.
C18_TotalAttempts ==
    /\ http.attempts <= maxRetries
    /\ http.phase = "rejected" /\ retryCondition(http.error, http.method)
           => http.attempts = maxRetries

\* the attempt of this step has failed
Failed == http.phase = "sending" /\ http'.phase \in {"waiting", "rejected"}

Retried == http'.phase = "waiting"

\* C19: a failed attempt that is not the last one allowed is retried exactly
\* when it failed without response, other than by a refused connection, or with
\* a status of 500 or more; a refused connection and the statuses 400, 401, 403
\* and 422 are never retried; the n-th retry waits min(baseDelay * 2^(n-1), 16000).
C19_RetryCondition ==
    [][Failed =>
         LET error == http'.error
         IN /\ http.retryCount < maxRetries =>
                  (Retried <=> \/ error.status = 0 /\ error.code # "ECONNREFUSED"
                               \/ error.status >= 500)
            /\ error.code = "ECONNREFUSED" \/ error.status \in {400, 401, 403, 422}
                  => ~Retried
            /\ Retried =>
                  http'.delay = Min(http.baseDelay * Pow(2, http'.retryCount - 1), 16000)]_vars

\* ---- Payload normalization
\* the names of the timestamp fields of the element of an event
TimestampFields(event) ==
    IF event \in GroupEvents THEN {"creation"}
    ELSE IF event \in ChatEvents THEN {"conversationTimestamp", "lastMessageRecvTimestamp"}
    ELSE {"messageTimestamp"}

IsDecimal(s) == s # <<>> /\ \A i \in 1..Len(s) : IsDigit(s[i])

\* parse has run once on an element that is not null and has returned
Parsed ==
    /\ parser.event \in ParsedEvents
    /\ parser.passes = 1 /\ ~parser.threw /\ ~parser.before.isNull

\* C21: every timestamp field delivered as a string comes out as the number
\* the string denotes, or as 0 when the string is not a decimal number, the
\* empty string included; a timestamp delivered as a number is unchanged.
C21_TimestampsAreNumbers ==
    Parsed =>
        \A f \in TimestampFields(parser.event) :
            LET t == parser.before[f]
                r == parser.value[f]
            IN /\ t.t = "string" => r = Num(IF IsDecimal(t.s) THEN Decimal(t.s) ELSE 0)
               /\ t.t = "number" => r = t

\* the fields of a message's content after parse, against those before: a
\* string under one of the five names is its decoded bytes, an object is
\* decoded in turn, everything else is as it was
RECURSIVE Decoded(_, _)
Decoded(before, after) ==
    /\ DOMAIN after = DOMAIN before
    /\ \A key \in DOMAIN before :
          IF /\ key \in {"jpegThumbnail", "mediaKey", "fileEncSha256", "fileSha256",
                         "fileLength"}
             /\ before[key].t = "string"
          THEN after[key] = Bytes(Decode(before[key].s))
          ELSE IF before[key].t = "object"
          THEN after[key].t = "object" /\ Decoded(before[key].o, after[key].o)
          ELSE after[key] = before[key]

\* parse has run once on a message with content
ParsedMessage ==
    Parsed /\ parser.event = "messages.upsert" /\ parser.before.message.t = "object"

C23_Idempotent ==
    parser.passes = 2 /\ ~parser.threw => parser.value = parser.before

\* the second pass over a result in which the first one made a number of a
\* string timestamp and bytes of a string below the top of the content
C23_Witness ==
    /\ parser.passes = 2 /\ ~parser.threw
    /\ parser.event = "messages.upsert"
    /\ parser.element.messageTimestamp = Str(<<"5", "x">>)
    /\ parser.value.messageTimestamp = Num(5)
    /\ parser.element.message.t = "object"
    /\ parser.element.message.o["mediaKey"].t = "object"
    /\ parser.element.message.o["mediaKey"].o["mediaKey"] = Str(Base64)
    /\ parser.value.message.o["mediaKey"].o["mediaKey"] = Bytes(<<72, 105>>)

\* ---- Restart
\* the pending list of a session as a restart has to restore it: the
\* operations of the list that are not older than maxAge, elapsed later
Restored(list, elapsed) ==
    LET kept == SelectSeq(list, LAMBDA m : m.age + elapsed <= maxAge)
    IN [i \in DOMAIN kept |->
          [id |-> kept[i].id, attempts |-> kept[i].attempts, lastError |-> kept[i].lastError]]

\* a new MessageQueue is constructed after a destroy() that wrote the file
Restarts == ~disk.persistTimer /\ disk.written /\ disk'.persistTimer

\* C24: a MessageQueue constructed on the persistDir of one that destroy()
\* flushed holds, for every session, the pending list of the destroyed one in
\* the same order with the same ids, attempts and lastError, less the
\* operations older than maxAge; a session left with none has no queue.
C24_RestartRoundTrip ==
    [][Restarts =>
         \A s \in Sessions :
            LET expected == Restored(disk.flushed[s], disk'.elapsed)
                q        == getPendingMessages(s)'
            IN /\ q = [i \in DOMAIN expected |-> expected[i].id]
               /\ \A i \in DOMAIN q :
                     /\ msgs'[q[i]].attempts = expected[i].attempts
                     /\ msgs'[q[i]].lastError = expected[i].lastError
                     /\ msgs'[q[i]].sessionId = s
               /\ expected = <<>> => queues'[s] = NoArr]_vars

\* a restart that restored an operation never attempted ahead of an older one
\* which had failed once, and dropped nothing
C24_Witness ==
    /\ disk.loaded
    /\ \E s \in Sessions :
          LET q == getPendingMessages(s)
          IN /\ Len(q) = 2
             /\ q[1] > q[2]
             /\ msgs[q[2]].lastError /\ msgs[q[2]].attempts = 1
             /\ msgs[q[1]].attempts = 0 /\ ~msgs[q[1]].lastError

\* a restart that dropped an expired operation and restored a younger one
C24_WitnessExpired ==
    /\ disk.loaded
    /\ disk.elapsed = 1
    /\ \E s \in Sessions : Len(getPendingMessages(s)) = 1 /\ Len(disk.file[s]) = 2

\* ---- Connection status
\* the transitions of connectionStatus the state machine has
StatusEdges ==
    {<<"connecting", "qrcode">>, <<"connecting", "open">>, <<"qrcode", "connecting">>,
     <<"qrcode", "close">>, <<"open", "close">>, <<"close", "connecting">>}

\* C25: every change of connectionStatus is one of connecting -> qrcode,
\* connecting -> open, qrcode -> connecting, qrcode -> close, open -> close and
\* close -> connecting, whatever init responses, polls, session:status messages
\* and injected events arrive.
C25_StatusEdges ==
    [][client'.connectionStatus # client.connectionStatus
          => <<client.connectionStatus, client'.connectionStatus>> \in StatusEdges]_vars

\* the same with the edges the claim's own examples leave open: a failed
\* initialization (connecting -> close) and a status set again to what it is
StatusEdgesOrFailure ==
    [][client'.connectionStatus # client.connectionStatus
          => <<client.connectionStatus, client'.connectionStatus>>
                 \in StatusEdges \cup {<<"connecting", "close">>}]_vars

\* ---- Session identifier
\* C26: once sessionId is assigned, from config.token or from an init
\* response, it never changes, whatever identifier later init responses carry.
C26_SessionIdImmutable ==
    [][client.sessionUUID # "none" => client'.sessionUUID = client.sessionUUID]_vars

\* ---- Subscription
\* C27: in every state of a SocketConnection, isSubscribed implies that the
\* connection is connected.
C27_SubscribedImpliesConnected == conn.isSubscribed => connected(conn)

\* ---- Online and offline notifications
\* the attempt of this step has succeeded
Succeeded == http.phase = "sending" /\ http'.phase = "resolved"

\* C28: the HttpClient notifies its owner of the transitions only: the first
\* retryable or refused attempt while the client is online runs the offline
\* handler, the first success while it is offline runs the online handler, and
\* no other attempt runs either (the handlers are those the constructor of the
\* VexClient passes, which set isServerOnline).
C28_EdgeTriggered ==
    [][/\ Failed /\ client.isServerOnline
          /\ (retryCondition(http'.error, http.method) \/ http'.error.code = "ECONNREFUSED")
          => ~client'.isServerOnline
       /\ Succeeded /\ ~client.isServerOnline => client'.isServerOnline
       /\ Succeeded /\ client.isServerOnline => client'.isServerOnline]_vars

\* ---- Expired and sent operations
\* the operations some session's pending list holds
PendingIds == UNION {Range(getPendingMessages(s)) : s \in Sessions}

\* this step is a drain whose purge emitted message:expired for id (the other
\* emitter of message:expired, the eviction of enqueue, hands out an id)
Purged(id) == nextId' = nextId /\ <<"expired", id>> \in Range(emitted')

\* C29: an operation for which the purge before a drain emitted
\* message:expired is not pending after it and is not passed to the send
\* function, in that drain or later (later: once notified as expired and
\* older than maxAge, it is not sent).
C29_ExpiredNotSent ==
    [][\A id \in MsgIds :
         /\ Purged(id) => /\ id \notin PendingIds'
                          /\ sendCount'[id] = sendCount[id]
         /\ notified[id].expired > 0 /\ isExpired(msgs, id)
               => sendCount'[id] = sendCount[id]]_vars

\* the operations queue.json holds
StoredIds ==
    UNION {{Field(disk.file[s][i], "id") : i \in DOMAIN disk.file[s]} : s \in Sessions}

\* C30: once message:sent is emitted for an operation it is not pending, a
\* queue.json written from then on does not hold it, and it is not passed to
\* the send function again.
C30_SentIsGone ==
    [][\A id \in MsgIds :
         /\ <<"sent", id>> \in Range(emitted') => id \notin PendingIds'
         /\ notified[id].sent > 0 =>
               /\ id \notin PendingIds'
               /\ sendCount'[id] = sendCount[id]
               /\ disk'.file # disk.file => id \notin StoredIds']_vars

\* C31: in every reachable state, the state after the constructor loaded
\* queue.json included, the queue of each session holds at most
\* config.maxQueueSize operations
C31_QueueBounded ==
    \A s \in Sessions : Len(getPendingMessages(s)) <= configMaxQueueSize

\* a drain of the session is in progress: it awaits its send function
Draining(s) == \E k \in Slots : drain[s][k].pc = "sending"

\* C32: when setServerOnline() switches the queue from offline to online, each
\* session with a queue that is not empty has a pending processing timer or a
\* drain in progress right after the call; setServerOnline() while online and
\* setServerOffline() while offline change no field of the queue
C32_OnlineSchedules ==
    [][/\ ~serverOnline /\ serverOnline' =>
            \A s \in Sessions :
                getPendingMessages(s)' # <<>> => s \in processingTimers' \/ Draining(s)'
       /\ \/ serverOnline /\ setServerOnline
          \/ ~serverOnline /\ setServerOffline
          => UNCHANGED <<queues, arrs, msgs, nextId, processingTimers, isProcessing,
                         sendFn, serverOnline, isDirty, drain>>]_vars

\* the server is back online and a timer is armed for a session whose
\* operations all failed before, none of them in the task that armed it
C32_Witness ==
    /\ serverOnline
    /\ \E s \in Sessions :
          /\ s \in processingTimers
          /\ ~Draining(s)
          /\ getPendingMessages(s) # <<>>
          /\ \A id \in Range(getPendingMessages(s)) :
                msgs[id].lastError /\ ~isExpired(msgs, id)
          /\ lastFailed[s] = NoMsg

\* a write of queue.json fails: in the persist timer or in destroy()
WriteFails == persistTimerFired(FALSE) \/ destroyQueue(FALSE)

\* the constructor cannot read or cannot parse queue.json
ReadFails ==
    \E elapsed \in 0..(maxAge + 1), size \in 1..maxQueueSize :
        newMessageQueue(elapsed, size, FALSE)

\* C33: a failed write leaves the queues as they are, leaves the queue dirty
\* and emits queue:error; a failed read at construction emits an error
\* notification and leaves no session in the queue
C33_StorageFailures ==
    [][/\ WriteFails =>
            /\ UNCHANGED <<queues, arrs, msgs>>
            /\ isDirty' = isDirty
            /\ <<"queue:error", NoMsg>> \in Range(emitted')
       /\ ReadFails =>
            /\ \A s \in Sessions : getPendingMessages(s)' = <<>>
            /\ emitted' # <<>>]_vars

\* the same with no notification required of a failed read
C33_EmptyAfterFailedRead ==
    [][/\ WriteFails =>
            /\ UNCHANGED <<queues, arrs, msgs>>
            /\ isDirty' = isDirty
            /\ <<"queue:error", NoMsg>> \in Range(emitted')
       /\ ReadFails => \A s \in Sessions : getPendingMessages(s)' = <<>>]_vars

\* a failed probe of the periodic health check settles
ProbeFails == healthSettled(FALSE)

\* what a failed probe does: the offline handler when the backend was believed
\* online, nothing otherwise
FailedProbeOnce ==
    /\ ProbeFails /\ client.isServerOnline /\ ~client.isDestroyed =>
          /\ ~client'.isServerOnline
          /\ evlog' = <<Emit("connection.update", Update("close", "none", "none"))>>
    /\ ProbeFails /\ ~client.isServerOnline =>
          /\ client' = client
          /\ evlog' = <<>>

NoClientTimer(c) == ~c.reconnectTimer /\ ~c.healthCheckTimer /\ ~c.pollingTimer

InOrder(log) == \A i, j \in DOMAIN log : i < j => log[i] < log[j]

\* C36: the events of each transport are emitted in the order in which they
\* were received: no event is emitted before an earlier one of its transport
C36_InOrder ==
    /\ InOrder(transport.log.socket)
    /\ InOrder(transport.log.poll)
    /\ InOrder(transport.log.webhook)

\* the same for the socket alone, whose handler has no await
C36_SocketInOrder == InOrder(transport.log.socket)

\* the socket is connected and every event of its connection has been handled
EventsHandled(k) == k.socket = "connected" /\ ~k.reconnectEvent

\* the handlers of a successful connection, first or repeated
ConnectionHandled == onConnect \/ onReconnect

\* C37: once the socket has connected or reconnected and its events are
\* handled, the connection is connected with its reconnect attempt counter at
\* 0, and the handling of every successful connection issues session:subscribe
C37_ReconnectResubscribes ==
    /\ [](EventsHandled(conn) => conn.isConnected /\ conn.reconnectAttempts = 0)
    /\ [][ConnectionHandled => conn'.subscribeAck /\ conn'.reconnectAttempts = 0]_vars

\* the same of the first connection and of a reconnection whose 'reconnect'
\* event the socket emits
C37_HandledConnectionSubscribes ==
    /\ [](conn.last \in {"connect event", "reconnect event"}
            => conn.isConnected /\ conn.reconnectAttempts = 0 /\ conn.subscribeAck)
    /\ [][ConnectionHandled => conn'.subscribeAck /\ conn'.reconnectAttempts = 0]_vars

\* connect() of a connection that was destroyed and replaced rejects while the
\* client holds the SocketConnection made by the later initialization
SupersededAttemptFails == orphanTimedOut /\ client.socketConnection

\* C38: the late failure or timeout of a superseded connection attempt does
\* not destroy the SocketConnection of the later initialization, does not mark
\* Socket.IO as failed and starts no polling while that connection is held
C38_SupersededAttemptHarmless ==
    [][SupersededAttemptFails =>
          /\ client'.socketConnection
          /\ socket' = socket
          /\ client'.socketIOFailed = client.socketIOFailed
          /\ client'.pollingTimer = client.pollingTimer
          /\ client'.isPollingEnabled = client.isPollingEnabled]_vars

\* the connection.update events of a step that tell 'open' or 'close'
OpenOrClose(log) ==
    {i \in DOMAIN log : /\ log[i].event = "connection.update"
                        /\ log[i].data.connection \in {"open", "close"}}

\* C39: when the client has emitted connection.update with connection 'open'
\* or 'close', connectionStatus is the value of the last such event
C39_StatusMatchesEvent ==
    \A i \in OpenOrClose(evlog) :
        (\A j \in OpenOrClose(evlog) : j <= i) =>
            client.connectionStatus = evlog[i].data.connection

\* the same for the event of a destroy
C39_DestroyedIsClosed ==
    client.isDestroyed /\ OpenOrClose(evlog) # {} => client.connectionStatus = "close"

\* the operations removeMessage or clearSession took out of their queue
Removed == {id \in MsgIds : msgs[id].removed}

\* the operations a notification of the step is about
NotifiedNow(es) == {es[i][2] : i \in {j \in DOMAIN es : es[j][1] \in {"sent", "failed", "expired"}}}

\* C40: after removeMessage or clearSession has returned, no delivery attempt
\* is started and no sent, failed or expired notification is emitted for an
\* operation it removed, and no removed operation is pending again
C40_RemovedStaysRemoved ==
    /\ [](\A s \in Sessions : Range(getPendingMessages(s)) \cap Removed = {})
    /\ [][\A id \in Removed : /\ sendCount'[id] <= sendCount[id]
                               /\ id \notin NotifiedNow(emitted')]_vars

\* the same while no drain is awaiting a send at the time of the call: an
\* operation removed then is referenced by nothing
C40_RemovedWhileIdle ==
    [][\A s \in Sessions :
          /\ clearSession(s) \/ \E id \in MsgIds : removeMessage(s, id)
          /\ \A k \in Slots : drain[s][k].pc = "idle"
          /\ Removed = {}
          => \A id \in MsgIds : ~msgs'[id].removed]_vars

====
